---- MODULE Spec2Model ----
(***************************************************************************)
(* The WASI component of Scryer Prolog (src/src/wasi_component.rs): the    *)
(* resource tables of ComponentState, the handles the host holds, and one  *)
(* action per exported method and per Drop implementation.  The Prolog     *)
(* engine behind the component (Machine, QueryState, LeafAnswer) is not    *)
(* part of the sources at hand; it is modelled from the specification's    *)
(* query/consult contract and kept apart in the Engine* definitions.       *)
(***************************************************************************)
EXTENDS Integers, Sequences, FiniteSets, TLC

VARIABLES NEXT_ID, machines, query_to_machine, binding_sets, term_refs, handles

\* The run of one query inside the engine (wam), the interrupt flag of
\* crate::machine, and the atom table with the callers interning into it.
VARIABLES wam, INTERRUPT, atom_table, interners

\* The REPL loop of a command line program: where it is, what is left on
\* its standard input, the queries it has sent to its machine; and the
\* program from its start to the query or the REPL.
VARIABLES repl, proc

runtime == <<wam, INTERRUPT>>

interning == <<atom_table, interners>>

cli == <<repl, proc>>

vars == <<NEXT_ID, machines, query_to_machine, binding_sets, term_refs, handles,
          wam, INTERRUPT, atom_table, interners, repl, proc>>

----------------------------------------------------------------------------
(* Bounds of the model.                                                    *)

\* Largest id next_id() hands out in a run of Spec.
MaxId == 4

\* Largest id next_id() hands out in a run of SpecTerms.
MaxTermId == 7

\* Length of the list the clause with the cut enumerates in SpecRuntime.
MaxList == 3

\* Number of callers interning concurrently in SpecAtoms.
MaxCallers == 2

\* Number of lines on standard input before its end in SpecRepl.
MaxLines == 2

----------------------------------------------------------------------------
(* Option<T> is a sequence of length at most one.                          *)

None == <<>>

Some(x) == <<x>>

IsSome(o) == Len(o) = 1

Unwrap(o) == o[1]

Range(s) == {s[i] : i \in 1..Len(s)}

\* The map m without key k (HashMap::remove).
MapRemove(m, k) == [x \in (DOMAIN m) \ {k} |-> m[x]]

\* The map m with key k set to v (HashMap::insert).
MapInsert(m, k, v) == [x \in (DOMAIN m) \cup {k} |-> IF x = k THEN v ELSE m[x]]

EmptyMap == [x \in {} |-> 0]

----------------------------------------------------------------------------
(* Terms (crate::Term): a closed sum of eight kinds.  An Integer is an     *)
(* arbitrary-precision value, kept as a sign and its decimal digits.       *)

Atom(s) == [k |-> "atom", v |-> s]

Integer(neg, digits) == [k |-> "int", neg |-> neg, digits |-> digits]

Float(s) == [k |-> "float", v |-> s]

Rational(n, d) == [k |-> "rational", n |-> n, d |-> d]

Str(s) == [k |-> "string", v |-> s]

List(items) == [k |-> "list", items |-> items]

Compound(f, args) == [k |-> "compound", f |-> f, args |-> args]

Var(s) == [k |-> "var", v |-> s]

DigitVal == [c \in {"0", "1", "2", "3", "4", "5", "6", "7", "8", "9"} |->
    CASE c = "0" -> 0 [] c = "1" -> 1 [] c = "2" -> 2 [] c = "3" -> 3
      [] c = "4" -> 4 [] c = "5" -> 5 [] c = "6" -> 6 [] c = "7" -> 7
      [] c = "8" -> 8 [] c = "9" -> 9]

\* i64::MAX = 9223372036854775807 and the magnitude of i64::MIN.
I64MaxDigits == <<"9", "2", "2", "3", "3", "7", "2", "0", "3", "6", "8", "5", "4", "7", "7", "5", "8", "0", "7">>

I64MinDigits == <<"9", "2", "2", "3", "3", "7", "2", "0", "3", "6", "8", "5", "4", "7", "7", "5", "8", "0", "8">>

\* IBig::to_string: an optional minus sign, then the digits.
IBigToString(i) == IF i.neg THEN <<"-">> \o i.digits ELSE i.digits

RECURSIVE StripZeros(_)
StripZeros(d) == IF Len(d) > 1 /\ d[1] = "0" THEN StripZeros(Tail(d)) ELSE d

\* a <= b for two digit strings without leading zeros.
DigitsLeq(a, b) ==
    \/ Len(a) < Len(b)
    \/ /\ Len(a) = Len(b)
       /\ \/ a = b
          \/ \E i \in 1..Len(a) :
                /\ \A j \in 1..(i - 1) : a[j] = b[j]
                /\ DigitVal[a[i]] < DigitVal[b[i]]

\* str::parse::<i64>().ok(): a sign, then digits accumulated with checked
\* arithmetic; an overflow of the 64-bit range gives None.
ParseI64(s) ==
    LET neg == Len(s) > 0 /\ s[1] = "-"
        signed == Len(s) > 0 /\ s[1] \in {"-", "+"}
        body == IF signed THEN Tail(s) ELSE s
    IN  IF Len(body) = 0 \/ \E i \in 1..Len(body) : body[i] \notin DOMAIN DigitVal
        THEN None
        ELSE LET mag == StripZeros(body)
             IN  IF DigitsLeq(mag, IF neg THEN I64MinDigits ELSE I64MaxDigits)
                 THEN Some([neg |-> neg /\ mag # <<"0">>, digits |-> mag])
                 ELSE None

\* The terms that occur in the answers of the modelled goals.
Big == Integer(FALSE, I64MinDigits)

Small == Integer(FALSE, <<"4", "2">>)

----------------------------------------------------------------------------
(* The engine: Machine, QueryState and LeafAnswer of the crate.  A machine  *)
(* holds a module-name -> clause-list table; a query state is the list of   *)
(* engine results still to come.  queries and overlap observe how many      *)
(* QueryState values borrow the machine; alive is false once the machine    *)
(* has been destroyed.                                                      *)

ModuleNames == {"facts"}

GoodPrograms == {"p(1.5). p(1 rdiv 3)."}

BadPrograms == {"p(a"}

Programs == GoodPrograms \cup BadPrograms

TermsGoal == "X = [42, 9223372036854775808], Y = f(a, V), Z = \"s\""

\* The goal texts the host passes to run_query in a run of Spec.
Goals == {"p(X)", "true", "throw(foo)", "X is 1 / 0", "foo("}

\* The order of the variable names, as the keys of a binding map compare.
KeyOrder == <<"X", "Y", "Z">>

\* The clause list a source text compiles to; None when it does not parse.
EngineCompile(program) ==
    IF program = "p(1.5). p(1 rdiv 3)."
    THEN Some(<<Float("1.5"), Rational(<<"1">>, <<"3">>)>>)
    ELSE None

EngineNew == [db |-> EmptyMap, queries |-> 0, overlap |-> FALSE]

\* consult_module: the module's clause list is replaced wholesale; a text
\* that does not compile leaves the table as it was.
EngineConsult(engine, module_name, program) ==
    LET compiled == EngineCompile(program)
    IN  IF IsSome(compiled)
        THEN [engine EXCEPT !.db = MapInsert(engine.db, module_name, Unwrap(compiled))]
        ELSE engine

Builtin(name, arity) == Compound("/", <<Atom(name), Integer(FALSE, <<arity>>)>>)

ErrorTerm(formal, context) == Compound("error", <<formal, context>>)

OkTrue == [ok |-> TRUE, leaf |-> [tag |-> "True"]]

OkFalse == [ok |-> TRUE, leaf |-> [tag |-> "False"]]

OkException(term) == [ok |-> TRUE, leaf |-> [tag |-> "Exception", term |-> term]]

OkBindings(bindings) == [ok |-> TRUE, leaf |-> [tag |-> "LeafAnswer", bindings |-> bindings]]

ErrItem(term) == [ok |-> FALSE, error |-> term]

\* An item that ends the query: an exception in either of its two forms.
IsException(item) == ~item.ok \/ item.leaf.tag = "Exception"

\* The results of a goal against a clause table, in resolution order.  The
\* bindings of one answer are a map from variable name to term, iterated in
\* key order (KeyOrder).
EngineAnswers(db, goal) ==
    CASE goal = "p(X)" ->
            IF "facts" \in DOMAIN db
            THEN [i \in 1..Len(db["facts"]) |-> OkBindings("X" :> db["facts"][i])]
            ELSE <<ErrItem(ErrorTerm(Compound("existence_error",
                        <<Atom("procedure"), Builtin("p", "1")>>), Builtin("p", "1")))>>
      [] goal = "true" -> <<OkTrue>>
      [] goal = "fail" -> <<OkFalse>>
      [] goal = TermsGoal ->
            <<OkBindings("Z" :> Str("s")
                            @@ "Y" :> Compound("f", <<Atom("a"), Var("_A")>>)
                            @@ "X" :> List(<<Small, Big>>))>>
      [] goal = "throw(foo)" -> <<OkException(Atom("foo"))>>
      [] goal = "X is 1 / 0" ->
            <<ErrItem(ErrorTerm(Compound("evaluation_error", <<Atom("zero_divisor")>>),
                                Builtin("/", "2")))>>
      [] OTHER -> <<>>

\* Whether a goal text parses.
EngineGoalParses(goal) == goal # "foo("

\* run_query_safe: Ok(query state) or Err(message); a query state borrows
\* the machine from here on.
EngineRunQuery(engine, goal) ==
    IF EngineGoalParses(goal)
    THEN [result |-> [ok |-> TRUE, qs |-> [answers |-> EngineAnswers(engine.db, goal)]],
          engine |-> [engine EXCEPT !.queries = @ + 1,
                                    !.overlap = @ \/ engine.queries > 0]]
    ELSE [result |-> [ok |-> FALSE, e |-> <<"Parse error: ", "IncompleteReduction">>],
          engine |-> engine]

\* Iterator::next of a query state: the next result, or None when no
\* alternative is left; an exception is the last result of its query.
EngineQueryNext(qs) ==
    IF qs.answers = <<>>
    THEN [item |-> None, qs |-> qs]
    ELSE [item |-> Some(Head(qs.answers)),
          qs |-> [answers |-> IF IsException(Head(qs.answers)) THEN <<>> ELSE Tail(qs.answers)]]

\* Dropping a query state releases its borrow of the machine.
EngineDropQuery(engine) == [engine EXCEPT !.queries = @ - 1]

----------------------------------------------------------------------------
(* Text.  A string built by format! is the sequence of its pieces.         *)

RECURSIVE Join(_, _)
\* The pieces of parts (a sequence of piece sequences), separated by sep.
Join(parts, sep) ==
    IF Len(parts) = 0 THEN <<>>
    ELSE IF Len(parts) = 1 THEN parts[1]
    ELSE parts[1] \o <<sep>> \o Join(Tail(parts), sep)

RECURSIVE DebugFmt(_)
\* format!("{:?}", term): the derived Debug text of a term.
DebugFmt(term) ==
    CASE term.k = "atom" -> <<"Atom(\"", term.v, "\")">>
      [] term.k = "int" -> <<"Integer(">> \o IBigToString(term) \o <<")">>
      [] term.k = "float" -> <<"Float(", term.v, ")">>
      [] term.k = "rational" -> <<"Rational(">> \o term.n \o <<"/">> \o term.d \o <<")">>
      [] term.k = "string" -> <<"String(\"", term.v, "\")">>
      [] term.k = "var" -> <<"Var(\"", term.v, "\")">>
      [] term.k = "list" ->
            <<"List([">> \o Join([i \in 1..Len(term.items) |-> DebugFmt(term.items[i])], ", ")
                \o <<"])">>
      [] term.k = "compound" ->
            <<"Compound(\"", term.f, "\", [">>
                \o Join([i \in 1..Len(term.args) |-> DebugFmt(term.args[i])], ", ")
                \o <<"])">>

RECURSIVE format_term_simple(_)
format_term_simple(term) ==
    CASE term.k = "atom" -> <<term.v>>
      [] term.k = "int" -> IBigToString(term)
      [] term.k = "float" -> <<term.v>>
      [] term.k = "string" -> <<"\"", term.v, "\"">>
      [] term.k = "var" -> <<term.v>>
      [] term.k = "list" ->
            <<"[">> \o Join([i \in 1..Len(term.items) |-> format_term_simple(term.items[i])], ", ")
                \o <<"]">>
      [] term.k = "compound" ->
            IF Len(term.args) = 0 THEN <<term.f>>
            ELSE <<term.f, "(">>
                    \o Join([i \in 1..Len(term.args) |-> format_term_simple(term.args[i])], ", ")
                    \o <<")">>
      [] term.k = "rational" -> term.n \o <<"/">> \o term.d

\* The message of a compound error type, None when no arm returns.
FormatCompoundError(error_type, error_args) ==
    CASE error_type = "existence_error" ->
            IF /\ Len(error_args) >= 2
               /\ error_args[1].k = "atom"
               /\ error_args[2].k = "compound"
               /\ error_args[2].f = "/"
               /\ Len(error_args[2].args) = 2
               /\ error_args[2].args[1].k = "atom"
               /\ error_args[2].args[2].k = "int"
            THEN Some(<<"Undefined ", error_args[1].v, ": ", error_args[2].args[1].v, "/">>
                        \o IBigToString(error_args[2].args[2]))
            ELSE None
      [] error_type = "type_error" ->
            IF Len(error_args) >= 2 /\ error_args[1].k = "atom"
            THEN Some(<<"Type error: expected ", error_args[1].v, ", got ">>
                        \o DebugFmt(error_args[2]))
            ELSE None
      [] error_type = "instantiation_error" ->
            Some(<<"Instantiation error: unbound variable in arithmetic or comparison">>)
      [] error_type = "evaluation_error" ->
            IF Len(error_args) >= 1 /\ error_args[1].k = "atom"
            THEN CASE error_args[1].v = "zero_divisor" -> Some(<<"Division by zero error">>)
                   [] error_args[1].v = "undefined" ->
                        Some(<<"Evaluation error: undefined arithmetic operation">>)
                   [] error_args[1].v = "float_overflow" ->
                        Some(<<"Evaluation error: floating point overflow">>)
                   [] error_args[1].v = "int_overflow" ->
                        Some(<<"Evaluation error: integer overflow">>)
                   [] OTHER -> Some(<<"Evaluation error: ", error_args[1].v>>)
            ELSE None
      [] error_type = "syntax_error" ->
            IF Len(error_args) >= 1 /\ error_args[1].k = "atom"
            THEN Some(<<"Syntax error: ", error_args[1].v>>)
            ELSE None
      [] error_type = "domain_error" ->
            IF Len(error_args) >= 2 /\ error_args[1].k = "atom"
            THEN Some(<<"Domain error: ">> \o format_term_simple(error_args[2])
                        \o <<" is not in domain ", error_args[1].v>>)
            ELSE None
      [] OTHER -> None

\* A formatter that knows no error term and always falls back.
format_error_term_fallback(term) == <<"Runtime error: ">> \o DebugFmt(term)

format_error_term(term) ==
    LET fallback == <<"Runtime error: ">> \o DebugFmt(term)
    IN  IF term.k = "compound" /\ term.f = "error" /\ Len(term.args) = 2
        THEN CASE term.args[1].k = "atom" ->
                    IF term.args[1].v = "instantiation_error"
                    THEN <<"Instantiation error: unbound variable in arithmetic or comparison">>
                    ELSE <<"Error: ", term.args[1].v>>
               [] term.args[1].k = "compound" ->
                    LET m == FormatCompoundError(term.args[1].f, term.args[1].args)
                    IN  IF IsSome(m) THEN Unwrap(m) ELSE fallback
               [] OTHER -> fallback
        ELSE fallback

\* The message run_query returns for an engine error e (lines 203-212).
QueryErrorMessage(e) ==
    IF \E i \in 1..Len(e) : e[i] = "Parse error: "
    THEN <<"Syntax error: ">> \o (IF Len(e) > 0 /\ e[1] = "Parse error: " THEN Tail(e) ELSE e)
    ELSE e

----------------------------------------------------------------------------
(* The component: ComponentState and the methods on it.  A method is an    *)
(* operator from the state before the call (and the arguments) to the      *)
(* state after it and the value returned.                                  *)

ComponentState ==
    [NEXT_ID |-> NEXT_ID, machines |-> machines, query_to_machine |-> query_to_machine,
     binding_sets |-> binding_sets, term_refs |-> term_refs]

Ok == [tag |-> "Ok"]

Err(msg) == [tag |-> "Err", msg |-> msg]

\* A u32 is held as the integer that has the same 32 bits in two's
\* complement: 0 .. 2^31 - 1 as themselves, 2^31 .. 2^32 - 1 as
\* -2^31 .. -1.  AtomicU32::fetch_add wraps around on overflow: the sum is
\* taken modulo 2^32.
wrapping_add(v, val) ==
    IF v > 2147483647 - val
    THEN (v - 2147483647 - 1) + (val - 2147483647 - 1)
    ELSE v + val

\* NEXT_ID.fetch_add(1): the value before the increment.
next_id(st) == [id |-> st.NEXT_ID, st |-> [st EXCEPT !.NEXT_ID = wrapping_add(@, 1)]]

\* An assignment that is lost while the machine holds a stored query state.
SetActiveQueryKeepOld(ms, value) ==
    IF IsSome(ms.active_query) THEN ms ELSE [machine |-> ms.machine, active_query |-> value]

\* An assignment to machine_state.active_query: the stored query state it
\* held, if any, is dropped.
SetActiveQuery(ms, value) ==
    [machine |-> IF IsSome(ms.active_query) THEN EngineDropQuery(ms.machine) ELSE ms.machine,
     active_query |-> value]

MachineNew(st) ==
    LET n == next_id(st)
        machine_state == [machine |-> EngineNew, active_query |-> None]
    IN  [st |-> [n.st EXCEPT !.machines = MapInsert(@, n.id, machine_state)],
         res |-> [tag |-> "Ok", id |-> n.id]]

\* A guard that lets every consult through.
ConsultRefusedNever(ms) == FALSE

\* The guard of consult_module_string: no consult under an active query.
ConsultRefused(ms) == IsSome(ms.active_query)

consult_module_string(st, self, module_name, program) ==
    IF self \notin DOMAIN st.machines
    THEN [st |-> st, res |-> Err(<<"Machine not found">>)]
    ELSE LET ms == st.machines[self]
         IN  IF ConsultRefused(ms)
             THEN [st |-> st, res |-> Err(<<"Cannot consult module while query is active">>)]
             ELSE [st |-> [st EXCEPT !.machines[self].machine =
                                        EngineConsult(ms.machine, module_name, program)],
                   res |-> Ok]

\* A clean-up that leaves the machine's active query where it is.
TakeActiveQueryKeep(st, self) == st

\* run_query's clean-up of the machine's active query: the stored state is
\* taken out and dropped, its id leaves query_to_machine.
TakeActiveQuery(st, self) ==
    LET ms == st.machines[self]
    IN  IF IsSome(ms.active_query)
        THEN [st EXCEPT !.machines[self] = SetActiveQuery(ms, None),
                        !.query_to_machine = MapRemove(@, Unwrap(ms.active_query).id)]
        ELSE st

run_query(st, self, query) ==
    IF self \notin DOMAIN st.machines
    THEN [st |-> st, res |-> Err(<<"Machine not found">>)]
    ELSE LET n == next_id(st)
             st1 == TakeActiveQuery(n.st, self)
             r == EngineRunQuery(st1.machines[self].machine, query)
         IN  IF ~r.result.ok
             THEN [st |-> st1, res |-> Err(QueryErrorMessage(r.result.e))]
             ELSE LET started == [st1.machines[self] EXCEPT !.machine = r.engine]
                      stored == [id |-> n.id, state |-> r.result.qs]
                  IN  [st |-> [st1 EXCEPT
                                 !.machines[self] = SetActiveQuery(started, Some(stored)),
                                 !.query_to_machine = MapInsert(@, n.id, self)],
                       res |-> [tag |-> "Ok", id |-> n.id]]

\* The pairs of the map from the last key to the first.
CollectBindingsReversed(bindings) ==
    LET keys == SelectSeq(KeyOrder, LAMBDA v : v \in DOMAIN bindings)
    IN  [i \in 1..Len(keys) |-> <<keys[Len(keys) + 1 - i], bindings[keys[Len(keys) + 1 - i]]>>]

\* BTreeMap::into_iter().collect(): the pairs of the map in key order.
CollectBindings(bindings) ==
    LET keys == SelectSeq(KeyOrder, LAMBDA v : v \in DOMAIN bindings)
    IN  [i \in 1..Len(keys) |-> <<keys[i], bindings[keys[i]]>>]

convert_leaf_answer(answer, st) ==
    CASE answer.tag = "True" -> [st |-> st, solution |-> [kind |-> "True"]]
      [] answer.tag = "False" -> [st |-> st, solution |-> [kind |-> "False"]]
      [] answer.tag = "Exception" ->
            [st |-> st, solution |-> [kind |-> "Exception", msg |-> DebugFmt(answer.term)]]
      [] answer.tag = "LeafAnswer" ->
            LET n == next_id(st)
                binding_data == [bindings |-> CollectBindings(answer.bindings)]
            IN  [st |-> [n.st EXCEPT !.binding_sets = MapInsert(@, n.id, binding_data)],
                 solution |-> [kind |-> "Bindings", id |-> n.id]]

\* A clean-up of the exhausted query that leaves its id mapped.
ExhaustKeepsMapping(st, machine_id, self) ==
    [st EXCEPT !.machines[machine_id] = SetActiveQuery(st.machines[machine_id], None)]

\* The None arm of next: the query is exhausted and cleaned up.
Exhaust(st, machine_id, self) ==
    [st EXCEPT !.machines[machine_id] = SetActiveQuery(st.machines[machine_id], None),
               !.query_to_machine = MapRemove(@, self)]

\* A next that hands out True and cleans the query up at once.
QueryNextCleansUp(st, self) ==
    IF self \in DOMAIN st.query_to_machine /\ st.query_to_machine[self] \in DOMAIN st.machines
    THEN [st |-> Exhaust(st, st.query_to_machine[self], self),
          res |-> [tag |-> "Ok", sol |-> Some([kind |-> "True"])]]
    ELSE [st |-> st, res |-> Err(<<"QueryState not found">>)]

QueryNext(st, self) ==
    IF self \notin DOMAIN st.query_to_machine
    THEN [st |-> st, res |-> Err(<<"QueryState not found">>)]
    ELSE LET machine_id == st.query_to_machine[self]
         IN  IF machine_id \notin DOMAIN st.machines
             THEN [st |-> st, res |-> Err(<<"Machine not found">>)]
             ELSE LET ms == st.machines[machine_id]
                  IN  IF IsSome(ms.active_query) /\ Unwrap(ms.active_query).id = self
                      THEN LET r == EngineQueryNext(Unwrap(ms.active_query).state)
                               st1 == [st EXCEPT !.machines[machine_id].active_query =
                                                    Some([id |-> self, state |-> r.qs])]
                           IN  IF r.item = None
                               THEN [st |-> Exhaust(st1, machine_id, self),
                                     res |-> [tag |-> "Ok", sol |-> None]]
                               ELSE IF Unwrap(r.item).ok
                               THEN LET c == convert_leaf_answer(Unwrap(r.item).leaf, st1)
                                    IN  [st |-> c.st, res |-> [tag |-> "Ok", sol |-> Some(c.solution)]]
                               ELSE [st |-> st1,
                                     res |-> Err(format_error_term(Unwrap(r.item).error))]
                      ELSE [st |-> st, res |-> Err(<<"Query is no longer active">>)]

----------------------------------------------------------------------------
(* Binding sets and term refs.                                             *)

\* The names the host asks get_binding for; W is bound by no answer.
VarNames == {"X", "Y", "Z", "W"}

variables(st, self) ==
    IF self \in DOMAIN st.binding_sets
    THEN LET b == st.binding_sets[self].bindings IN [i \in 1..Len(b) |-> b[i][1]]
    ELSE <<>>

\* The term of the first pair of bindings whose name is var_name.
FindBinding(bindings, var_name) ==
    LET hits == SelectSeq(bindings, LAMBDA pair : pair[1] = var_name)
    IN  IF hits = <<>> THEN None ELSE Some(hits[1][2])

get_binding(st, self, var_name) ==
    IF self \notin DOMAIN st.binding_sets
    THEN [st |-> st, res |-> None]
    ELSE LET term == FindBinding(st.binding_sets[self].bindings, var_name)
         IN  IF term = None
             THEN [st |-> st, res |-> None]
             ELSE LET n == next_id(st)
                  IN  [st |-> [n.st EXCEPT !.term_refs =
                                        MapInsert(@, n.id, [term |-> Unwrap(term)])],
                       res |-> Some(n.id)]

TermTypeOf(term) ==
    CASE term.k = "atom" -> "Atom"
      [] term.k = "int" -> "Integer"
      [] term.k = "float" -> "Float"
      [] term.k = "string" -> "Str"
      [] term.k = "list" -> "Lst"
      [] term.k = "compound" -> "Compound"
      [] term.k = "var" -> "Variable"
      [] term.k = "rational" -> "Rational"

term_type(st, self) ==
    IF self \in DOMAIN st.term_refs THEN TermTypeOf(st.term_refs[self].term) ELSE "Atom"

as_atom(st, self) ==
    IF self \in DOMAIN st.term_refs /\ st.term_refs[self].term.k = "atom"
    THEN Some(st.term_refs[self].term.v) ELSE None

\* An as_integer without the conversion to i64.
as_integer_unbounded(st, self) ==
    IF self \in DOMAIN st.term_refs /\ st.term_refs[self].term.k = "int"
    THEN Some([neg |-> st.term_refs[self].term.neg, digits |-> st.term_refs[self].term.digits])
    ELSE None

as_integer(st, self) ==
    IF self \in DOMAIN st.term_refs /\ st.term_refs[self].term.k = "int"
    THEN ParseI64(IBigToString(st.term_refs[self].term)) ELSE None

as_float(st, self) ==
    IF self \in DOMAIN st.term_refs /\ st.term_refs[self].term.k = "float"
    THEN Some(st.term_refs[self].term.v) ELSE None

as_string(st, self) ==
    IF self \in DOMAIN st.term_refs /\ st.term_refs[self].term.k = "string"
    THEN Some(st.term_refs[self].term.v) ELSE None

as_variable(st, self) ==
    IF self \in DOMAIN st.term_refs /\ st.term_refs[self].term.k = "var"
    THEN Some(st.term_refs[self].term.v) ELSE None

as_rational(st, self) ==
    IF self \in DOMAIN st.term_refs /\ st.term_refs[self].term.k = "rational"
    THEN Some(<<st.term_refs[self].term.n, st.term_refs[self].term.d>>) ELSE None

\* One new term ref per term, returned from the last term to the first.
InsertTermsReversed(st, terms) ==
    LET n == Len(terms)
        ids == [i \in 1..n |-> st.NEXT_ID + i - 1]
    IN  [st |-> [st EXCEPT !.NEXT_ID = @ + n,
                           !.term_refs = [x \in (DOMAIN @) \cup Range(ids) |->
                                            IF x \in Range(ids)
                                            THEN [term |-> terms[st.NEXT_ID + n - x]]
                                            ELSE @[x]]],
         ids |-> ids]

RECURSIVE InsertTerms(_, _)
\* terms.iter().map(..).collect(): one new term ref per term, in order.
InsertTerms(st, terms) ==
    IF terms = <<>>
    THEN [st |-> st, ids |-> <<>>]
    ELSE LET n == next_id(st)
             st1 == [n.st EXCEPT !.term_refs = MapInsert(@, n.id, [term |-> Head(terms)])]
             rest == InsertTerms(st1, Tail(terms))
         IN  [st |-> rest.st, ids |-> <<n.id>> \o rest.ids]

as_list(st, self) ==
    IF self \in DOMAIN st.term_refs /\ st.term_refs[self].term.k = "list"
    THEN LET r == InsertTerms(st, st.term_refs[self].term.items)
         IN  [st |-> r.st, res |-> Some(r.ids)]
    ELSE [st |-> st, res |-> None]

as_compound(st, self) ==
    IF self \in DOMAIN st.term_refs /\ st.term_refs[self].term.k = "compound"
    THEN LET r == InsertTerms(st, st.term_refs[self].term.args)
         IN  [st |-> r.st,
              res |-> Some([functor |-> st.term_refs[self].term.f, args |-> r.ids])]
    ELSE [st |-> st, res |-> None]

to_string(st, self) ==
    IF self \in DOMAIN st.term_refs THEN DebugFmt(st.term_refs[self].term) ELSE <<"?">>

----------------------------------------------------------------------------
(* The Drop implementations.                                               *)

\* A drop of a machine that takes the answers of its queries with it.
DropMachineResourceCascade(st, self) ==
    [st EXCEPT !.machines = MapRemove(@, self), !.query_to_machine = EmptyMap,
               !.binding_sets = EmptyMap, !.term_refs = EmptyMap]

\* A drop of a machine that leaves the id of its active query mapped.
DropMachineResourceKeepsMapping(st, self) == [st EXCEPT !.machines = MapRemove(@, self)]

\* A drop of a machine that clears the whole of query_to_machine.
DropMachineResourceAll(st, self) ==
    [st EXCEPT !.machines = MapRemove(@, self), !.query_to_machine = EmptyMap]

DropMachineResource(st, self) ==
    LET query_id_to_remove ==
            IF self \in DOMAIN st.machines /\ IsSome(st.machines[self].active_query)
            THEN Some(Unwrap(st.machines[self].active_query).id)
            ELSE None
        st1 == IF IsSome(query_id_to_remove)
               THEN [st EXCEPT !.query_to_machine = MapRemove(@, Unwrap(query_id_to_remove))]
               ELSE st
    IN  [st1 EXCEPT !.machines = MapRemove(@, self)]

\* A drop of a query handle that unmaps the id and leaves the machine's
\* active_query as it is.
DropQueryStateResourceUnmapsOnly(st, self) ==
    [st EXCEPT !.query_to_machine = MapRemove(@, self)]

DropQueryStateResource(st, self) ==
    IF self \in DOMAIN st.query_to_machine
    THEN LET machine_id == st.query_to_machine[self]
             st1 == [st EXCEPT !.query_to_machine = MapRemove(@, self)]
         IN  IF /\ machine_id \in DOMAIN st1.machines
                /\ IsSome(st1.machines[machine_id].active_query)
                /\ Unwrap(st1.machines[machine_id].active_query).id = self
             THEN [st1 EXCEPT !.machines[machine_id] =
                                SetActiveQuery(st1.machines[machine_id], None)]
             ELSE st1
    ELSE st

\* A drop of a binding set handle that leaves the entry in the map.
DropBindingSetResourceKeepsEntry(st, self) == st

DropBindingSetResource(st, self) == [st EXCEPT !.binding_sets = MapRemove(@, self)]

\* The fields of MachineState in the order of their declaration, which is
\* the order in which the drop of a MachineState drops them.
MachineStateFields == <<"machine", "active_query">>

\* What the drop of a field of a MachineState destroys: machine is the only
\* Rc of the engine, active_query holds the stored query state if any.
FieldDestroys(ms, field) ==
    IF field = "machine" THEN <<"engine">>
    ELSE IF IsSome(ms.active_query) THEN <<"query_state">> ELSE <<>>

\* The destructions of state.machines.remove(&self.id) in the drop of a
\* machine handle: the map held the only Rc of the MachineState, whose
\* fields are dropped one after the other.
DropMachineDestroys(st, self) ==
    IF self \in DOMAIN st.machines
    THEN FieldDestroys(st.machines[self], MachineStateFields[1])
            \o FieldDestroys(st.machines[self], MachineStateFields[2])
    ELSE <<>>

DropTermRefResource(st, self) == [st EXCEPT !.term_refs = MapRemove(@, self)]

----------------------------------------------------------------------------
(* The host.  handles holds the resources the host owns: a method is       *)
(* called on a live handle only, and a handle is dropped once.  For a      *)
(* query handle it also keeps the machine that made it and which terminal  *)
(* outcomes next() has reported on it.  What a call returns is the res of   *)
(* its method applied to the state before the call; a call that only reads  *)
(* leaves every variable as it is.                                          *)

\* No query is run step by step, nobody interns.
RuntimeIdle ==
    /\ wam = [status |-> "Idle"]
    /\ INTERRUPT = FALSE

InterningIdle ==
    /\ atom_table = <<>>
    /\ interners = <<>>

\* No command line program runs.
CliIdle == repl = [pc |-> "idle"] /\ proc = [pc |-> "idle"]

Commit(st) ==
    /\ UNCHANGED <<runtime, interning, cli>>
    /\ NEXT_ID' = st.NEXT_ID
    /\ machines' = st.machines
    /\ query_to_machine' = st.query_to_machine
    /\ binding_sets' = st.binding_sets
    /\ term_refs' = st.term_refs

\* The step hands out no id above limit.
Within(limit) == NEXT_ID' <= limit + 1

WrapperErrors == {<<"QueryState not found">>, <<"Machine not found">>,
                  <<"Query is no longer active">>}

\* What a result of next() reports.
OutcomeKind(res) ==
    IF res.tag = "Ok"
    THEN IF res.sol = None THEN "Exhausted" ELSE Unwrap(res.sol).kind
    ELSE IF res.msg \in WrapperErrors THEN "Refused" ELSE "Error"

Init ==
    /\ NEXT_ID = 1
    /\ machines = EmptyMap
    /\ query_to_machine = EmptyMap
    /\ binding_sets = EmptyMap
    /\ term_refs = EmptyMap
    /\ handles = [machines |-> {}, queries |-> EmptyMap, binding_sets |-> {}, term_refs |-> {}]
    /\ RuntimeIdle
    /\ InterningIdle
    /\ CliIdle

NewMachine ==
    LET r == MachineNew(ComponentState)
    IN  /\ Commit(r.st)
        /\ handles' = [handles EXCEPT !.machines = @ \cup {r.res.id}]

Consult(self, module_name, program) ==
    LET r == consult_module_string(ComponentState, self, module_name, program)
    IN  /\ Commit(r.st)
        /\ UNCHANGED handles

RunQuery(self, query) ==
    LET r == run_query(ComponentState, self, query)
    IN  /\ Commit(r.st)
        /\ handles' = IF r.res.tag = "Ok"
                      THEN [handles EXCEPT !.queries =
                                MapInsert(@, r.res.id, [machine |-> self, reported |-> {}])]
                      ELSE handles

Next_(self) ==
    LET r == QueryNext(ComponentState, self)
        kind == OutcomeKind(r.res)
        seen == IF kind = "Exhausted" THEN {"Exhausted"}
                ELSE IF kind \in {"Exception", "Error"} THEN {"Exception"}
                ELSE IF kind \in {"True", "False", "Bindings"} THEN {"Solution"}
                ELSE {}
    IN  /\ Commit(r.st)
        /\ handles' = [handles EXCEPT
                         !.queries[self].reported = @ \cup seen,
                         !.binding_sets = IF kind = "Bindings"
                                          THEN @ \cup {Unwrap(r.res.sol).id} ELSE @]

\* variables() only reads: the call returns variables(ComponentState, self).
Variables(self) ==
    /\ self \in DOMAIN binding_sets
    /\ UNCHANGED vars

GetBinding(self, var_name) ==
    LET r == get_binding(ComponentState, self, var_name)
    IN  /\ Commit(r.st)
        /\ handles' = [handles EXCEPT !.term_refs = @ \cup Range(r.res)]

\* The accessors of a term ref that only read (term_type, as_atom,
\* as_integer, as_float, as_string, as_variable, as_rational, to_string):
\* the call returns the accessor applied to ComponentState and self.
Access(self) ==
    /\ self \in DOMAIN term_refs
    /\ UNCHANGED vars

AsList(self) ==
    LET r == as_list(ComponentState, self)
    IN  /\ Commit(r.st)
        /\ handles' = [handles EXCEPT !.term_refs =
                            @ \cup (IF IsSome(r.res) THEN Range(Unwrap(r.res)) ELSE {})]

AsCompound(self) ==
    LET r == as_compound(ComponentState, self)
    IN  /\ Commit(r.st)
        /\ handles' = [handles EXCEPT !.term_refs =
                            @ \cup (IF IsSome(r.res) THEN Range(Unwrap(r.res).args) ELSE {})]

DropMachine(self) ==
    /\ Commit(DropMachineResource(ComponentState, self))
    /\ handles' = [handles EXCEPT !.machines = @ \ {self}]

DropQuery(self) ==
    /\ Commit(DropQueryStateResource(ComponentState, self))
    /\ handles' = [handles EXCEPT !.queries = MapRemove(@, self)]

DropBindingSet(self) ==
    /\ Commit(DropBindingSetResource(ComponentState, self))
    /\ handles' = [handles EXCEPT !.binding_sets = @ \ {self}]

DropTermRef(self) ==
    /\ Commit(DropTermRefResource(ComponentState, self))
    /\ handles' = [handles EXCEPT !.term_refs = @ \ {self}]

\* The calls the host can make, within the bound on ids.
Next ==
    \/ NewMachine /\ Within(MaxId)
    \/ \E self \in handles.machines, module_name \in ModuleNames, program \in Programs :
            Consult(self, module_name, program)
    \/ \E self \in handles.machines, query \in Goals : RunQuery(self, query) /\ Within(MaxId)
    \/ \E self \in DOMAIN handles.queries : Next_(self) /\ Within(MaxId)
    \/ \E self \in handles.binding_sets : Variables(self)
    \/ \E self \in handles.binding_sets, var_name \in VarNames :
            GetBinding(self, var_name) /\ Within(MaxId)
    \/ \E self \in handles.term_refs : Access(self)
    \/ \E self \in handles.term_refs : AsList(self) /\ Within(MaxId)
    \/ \E self \in handles.term_refs : AsCompound(self) /\ Within(MaxId)
    \/ \E self \in handles.machines : DropMachine(self)
    \/ \E self \in DOMAIN handles.queries : DropQuery(self)
    \/ \E self \in handles.binding_sets : DropBindingSet(self)
    \/ \E self \in handles.term_refs : DropTermRef(self)

Spec == Init /\ [][Next]_vars

----------------------------------------------------------------------------
(* The counter at the end of its range.  SpecIds starts where a machine,   *)
(* the first resource made, is still live and next_id has been called so   *)
(* often since, for resources dropped again, that NEXT_ID is within        *)
(* MaxToWrap of 2^32; it follows the calls of the host until the counter    *)
(* has come round to MaxReused.                                             *)

MaxToWrap == 1

MaxReused == 1

InitIds ==
    \E k \in 1..MaxToWrap :
        LET fresh == [NEXT_ID |-> 1, machines |-> EmptyMap, query_to_machine |-> EmptyMap,
                      binding_sets |-> EmptyMap, term_refs |-> EmptyMap]
            r == MachineNew(fresh)
        IN  /\ NEXT_ID = 0 - k
            /\ machines = r.st.machines
            /\ query_to_machine = EmptyMap
            /\ binding_sets = EmptyMap
            /\ term_refs = EmptyMap
            /\ handles = [machines |-> {r.res.id}, queries |-> EmptyMap,
                          binding_sets |-> {}, term_refs |-> {}]
            /\ RuntimeIdle
            /\ InterningIdle
            /\ CliIdle

NextIds ==
    \/ NewMachine /\ Within(MaxReused)
    \/ \E self \in handles.machines, module_name \in ModuleNames, program \in Programs :
            Consult(self, module_name, program)
    \/ \E self \in handles.machines, query \in Goals :
            RunQuery(self, query) /\ Within(MaxReused)
    \/ \E self \in DOMAIN handles.queries : Next_(self) /\ Within(MaxReused)
    \/ \E self \in handles.binding_sets : Variables(self)
    \/ \E self \in handles.binding_sets, var_name \in VarNames :
            GetBinding(self, var_name) /\ Within(MaxReused)
    \/ \E self \in handles.term_refs : Access(self)
    \/ \E self \in handles.term_refs : AsList(self) /\ Within(MaxReused)
    \/ \E self \in handles.term_refs : AsCompound(self) /\ Within(MaxReused)
    \/ \E self \in handles.machines : DropMachine(self)
    \/ \E self \in DOMAIN handles.queries : DropQuery(self)
    \/ \E self \in handles.binding_sets : DropBindingSet(self)
    \/ \E self \in handles.term_refs : DropTermRef(self)

SpecIds == InitIds /\ [][NextIds]_vars

----------------------------------------------------------------------------
(* Inspection of answers.  SpecTerms starts where a first answer with       *)
(* bindings has just been returned (a machine, a consulted program, a       *)
(* query on it and one call of next) and follows the calls that inspect     *)
(* and release what the component handed out, to a greater depth.           *)

BindingGoals == {TermsGoal, "p(X)"}

\* The state and the result after new, consult (if a program is given),
\* run_query(goal) and one next.
FirstAnswer(goal, program) ==
    LET fresh == [NEXT_ID |-> 1, machines |-> EmptyMap, query_to_machine |-> EmptyMap,
                  binding_sets |-> EmptyMap, term_refs |-> EmptyMap]
        r1 == MachineNew(fresh)
        r2 == IF IsSome(program)
              THEN consult_module_string(r1.st, r1.res.id, "facts", Unwrap(program))
              ELSE r1
        r3 == run_query(r2.st, r1.res.id, goal)
    IN  [machine |-> r1.res.id, query |-> r3.res.id, next |-> QueryNext(r3.st, r3.res.id)]

InitTerms ==
    \E goal \in BindingGoals, program \in GoodPrograms :
        LET a == FirstAnswer(goal, Some(program))
        IN  /\ OutcomeKind(a.next.res) = "Bindings"
            /\ RuntimeIdle
            /\ InterningIdle
            /\ CliIdle
            /\ NEXT_ID = a.next.st.NEXT_ID
            /\ machines = a.next.st.machines
            /\ query_to_machine = a.next.st.query_to_machine
            /\ binding_sets = a.next.st.binding_sets
            /\ term_refs = a.next.st.term_refs
            /\ handles = [machines |-> {a.machine},
                          queries |-> (a.query :> [machine |-> a.machine, reported |-> {}]),
                          binding_sets |-> {Unwrap(a.next.res.sol).id},
                          term_refs |-> {}]

NextTerms ==
    \/ \E self \in DOMAIN handles.queries : Next_(self) /\ Within(MaxTermId)
    \/ \E self \in handles.binding_sets : Variables(self)
    \/ \E self \in handles.binding_sets, var_name \in VarNames :
            GetBinding(self, var_name) /\ Within(MaxTermId)
    \/ \E self \in handles.term_refs : Access(self)
    \/ \E self \in handles.term_refs : AsList(self) /\ Within(MaxTermId)
    \/ \E self \in handles.term_refs : AsCompound(self) /\ Within(MaxTermId)
    \/ \E self \in handles.machines : DropMachine(self)
    \/ \E self \in DOMAIN handles.queries : DropQuery(self)
    \/ \E self \in handles.binding_sets : DropBindingSet(self)
    \/ \E self \in handles.term_refs : DropTermRef(self)

SpecTerms == InitTerms /\ [][NextTerms]_vars

----------------------------------------------------------------------------
(* The abstract machine runtime of the engine: heap, environment stack and *)
(* trail arenas, unification, choice points, cut, catch and throw, first-  *)
(* argument indexing and the interrupt poll.  One step of the machine is   *)
(* one instruction boundary.                                               *)

\* A heap cell holding a variable, and a variable of a clause before the
\* clause is called.
Ref(a) == [k |-> "ref", a |-> a]

Local(i) == [k |-> "local", i |-> i]

Num(d) == Integer(FALSE, <<d>>)

Nil == Atom("[]")

Cons(h, t) == Compound(".", <<h, t>>)

\* An unbound variable cell refers to itself.
Unbound(heap, a) == heap[a].k = "ref" /\ heap[a].a = a

FreshCells(base, n) == [i \in 1..n |-> Ref(base + i)]

RECURSIVE Deref(_, _)
\* Dereference-chasing through bound variables.
Deref(t, heap) ==
    IF t.k = "ref" /\ ~Unbound(heap, t.a) THEN Deref(heap[t.a], heap) ELSE t

RECURSIVE Resolve(_, _)
\* The term with every bound variable replaced by its value.
Resolve(t, heap) ==
    LET d == Deref(t, heap)
    IN  IF d.k = "compound"
        THEN Compound(d.f, [i \in 1..Len(d.args) |-> Resolve(d.args[i], heap)])
        ELSE d

RECURSIVE Rename(_, _)
\* The term with the clause's variables placed at base + 1, base + 2, ...
Rename(t, base) ==
    IF t.k = "local" THEN Ref(base + t.i)
    ELSE IF t.k = "compound"
    THEN Compound(t.f, [i \in 1..Len(t.args) |-> Rename(t.args[i], base)])
    ELSE t

\* A binding that leaves no entry on the trail.
BindUnlogged(heap, trail, a, t) == [heap |-> [heap EXCEPT ![a] = t], trail |-> trail]

\* Binding a variable cell logs its address on the trail.
Bind(heap, trail, a, t) == [heap |-> [heap EXCEPT ![a] = t], trail |-> Append(trail, a)]

RECURSIVE Unify(_, _, _)
\* Unification of the pairs in order; occurs-check is off.  On a mismatch
\* the bindings made so far stay until a backtrack undoes them.
Unify(pairs, heap, trail) ==
    IF pairs = <<>>
    THEN [ok |-> TRUE, heap |-> heap, trail |-> trail]
    ELSE LET s == Deref(pairs[1][1], heap)
             t == Deref(pairs[1][2], heap)
             rest == Tail(pairs)
             failed == [ok |-> FALSE, heap |-> heap, trail |-> trail]
         IN  IF s.k = "ref" /\ t.k = "ref"
             THEN IF s.a = t.a THEN Unify(rest, heap, trail)
                  ELSE LET b == IF s.a > t.a THEN Bind(heap, trail, s.a, t)
                                ELSE Bind(heap, trail, t.a, s)
                       IN  Unify(rest, b.heap, b.trail)
             ELSE IF s.k = "ref"
             THEN LET b == Bind(heap, trail, s.a, t) IN Unify(rest, b.heap, b.trail)
             ELSE IF t.k = "ref"
             THEN LET b == Bind(heap, trail, t.a, s) IN Unify(rest, b.heap, b.trail)
             ELSE IF s.k # t.k THEN failed
             ELSE IF s.k = "compound"
             THEN IF s.f = t.f /\ Len(s.args) = Len(t.args)
                  THEN Unify([i \in 1..Len(s.args) |-> <<s.args[i], t.args[i]>>] \o rest,
                             heap, trail)
                  ELSE failed
             ELSE IF s = t THEN Unify(rest, heap, trail) ELSE failed

\* The addresses of the bound variable cells.
BoundCells(heap) == {a \in 1..Len(heap) : ~Unbound(heap, a)}

\* A clause: head, body goals, number of variables.
Clause(head, body, n) == [head |-> head, body |-> body, n |-> n]

Fact(head, n) == Clause(head, <<>>, n)

Call1(f, a) == Compound(f, <<a>>)

Call2(f, a, b) == Compound(f, <<a, b>>)

DigitOf == <<"1", "2", "3", "4", "5", "6", "7", "8", "9">>

RECURSIVE ListFrom(_, _)
\* The list [i, i + 1, ..., n].
ListFrom(i, n) == IF i > n THEN Nil ELSE Cons(Num(DigitOf[i]), ListFrom(i + 1, n))

\* The clause database: each predicate's clauses in insertion order.
\*   p(a). p(b). p(c).                 q(1). q(2).
\*   member(X, [X|_]).                 member(X, [_|T]) :- member(X, T).
\*   c(X) :- member(X, [1,2,3]), !.    c(_) :- fail.
\*   k(a, 1). k(X, 2). k(b, 3). k(a, 4). k(f(_), 5).
\*   g(f(Y)) :- Y = a.                 g(b).
\*   t(X) :- g(X), fail.               t(X) :- g(X).
Program ==
    [p |-> <<Fact(Call1("p", Atom("a")), 0), Fact(Call1("p", Atom("b")), 0),
             Fact(Call1("p", Atom("c")), 0)>>,
     q |-> <<Fact(Call1("q", Num("1")), 0), Fact(Call1("q", Num("2")), 0)>>,
     member |-> <<Fact(Call2("member", Local(1), Cons(Local(1), Local(2))), 2),
                  Clause(Call2("member", Local(1), Cons(Local(2), Local(3))),
                         <<Call2("member", Local(1), Local(3))>>, 3)>>,
     c |-> <<Clause(Call1("c", Local(1)),
                    <<Call2("member", Local(1), ListFrom(1, MaxList)), Atom("!")>>, 1),
             Clause(Call1("c", Local(1)), <<Atom("fail")>>, 1)>>,
     k |-> <<Fact(Call2("k", Atom("a"), Num("1")), 0), Fact(Call2("k", Local(1), Num("2")), 1),
             Fact(Call2("k", Atom("b"), Num("3")), 0), Fact(Call2("k", Atom("a"), Num("4")), 0),
             Fact(Call2("k", Call1("f", Local(1)), Num("5")), 1)>>,
     g |-> <<Clause(Call1("g", Call1("f", Local(1))), <<Call2("=", Local(1), Atom("a"))>>, 1),
             Fact(Call1("g", Atom("b")), 0)>>,
     t |-> <<Clause(Call1("t", Local(1)), <<Call1("g", Local(1)), Atom("fail")>>, 1),
             Clause(Call1("t", Local(1)), <<Call1("g", Local(1))>>, 1)>>]

\* The index key of a first argument: its constant, its principal functor,
\* or "any" for a variable.
IndexKey(t) ==
    CASE t.k \in {"ref", "local"} -> <<"any">>
      [] t.k = "compound" -> <<"functor", t.f, Len(t.args)>>
      [] t.k = "atom" -> <<"atom", t.v>>
      [] t.k = "int" -> <<"int">> \o IBigToString(t)
      [] OTHER -> <<"other">>

\* The bucket of a key: the indices, in clause order, of the clauses whose
\* first argument has that key.
Bucket(clauses, key) ==
    SelectSeq([i \in 1..Len(clauses) |-> i],
              LAMBDA i : IndexKey(clauses[i].head.args[1]) = key)

\* The two buckets one after the other.
MergeBucketsAppended(matching, any) == matching \o any

RECURSIVE MergeBuckets(_, _)
\* The clauses of two buckets in their original relative order.
MergeBuckets(matching, any) ==
    IF matching = <<>> THEN any
    ELSE IF any = <<>> THEN matching
    ELSE IF Head(matching) < Head(any)
    THEN <<Head(matching)>> \o MergeBuckets(Tail(matching), any)
    ELSE <<Head(any)>> \o MergeBuckets(matching, Tail(any))

\* The clauses a call tries, in order: all of them without indexing or for
\* a call with a variable first argument, else the bucket of the call's
\* key merged with the "any" bucket.
Candidates(clauses, goal, indexing, heap) ==
    LET all == [i \in 1..Len(clauses) |-> i]
        key == IndexKey(Deref(goal.args[1], heap))
    IN  IF ~indexing \/ key = <<"any">> THEN all
        ELSE MergeBuckets(Bucket(clauses, key), Bucket(clauses, <<"any">>))

\* The items of the continuation: a goal still to call, a clause to try
\* for a call, the exit of a clause activation, the exit of a catch scope.
CallItem(goal) == [t |-> "call", goal |-> goal]

TryItem(goal, clause, cutB, born) ==
    [t |-> "try", goal |-> goal, clause |-> clause, cutB |-> cutB, born |-> born]

ProceedItem(ce) == [t |-> "proceed", ce |-> ce]

PopCatchItem(id, ce) == [t |-> "popcatch", id |-> id, ce |-> ce]

\* An environment frame: the frame to continue in, the height of the choice
\* point stack when the activation was entered, and when it was entered.
Frame(ce, cutB, born) == [ce |-> ce, cutB |-> cutB, born |-> born]

\* A choice point: the three marks, the alternatives still untried, the
\* saved call and continuation.  born and bound record when it was created
\* and which cells were bound then.
ChoicePoint(m, alts, goal, cont) ==
    [kind |-> "clauses", h |-> Len(m.heap), s |-> Len(m.stack), tr |-> Len(m.trail),
     alts |-> alts, goal |-> goal, cont |-> cont, e |-> m.e,
     born |-> m.clock, bound |-> BoundCells(m.heap),
     id |-> 0, catcher |-> Nil, recovery |-> Nil]

\* A catch barrier: a choice-point-like marker with no alternative.
CatchBarrier(m, catcher, recovery, cont) ==
    [kind |-> "catch", h |-> Len(m.heap), s |-> Len(m.stack), tr |-> Len(m.trail),
     alts |-> <<>>, goal |-> Nil, cont |-> cont, e |-> m.e,
     born |-> m.clock, bound |-> BoundCells(m.heap),
     id |-> m.clock, catcher |-> catcher, recovery |-> recovery]

\* The marks a query starts from.
InitialMark(m) == [h |-> m.nvars, s |-> 1, tr |-> 0]

\* A query: its goal and the number of its variables.
Start(query, indexing) ==
    [status |-> "Running", indexing |-> indexing, query |-> query, nvars |-> query.n,
     cont |-> <<CallItem(Rename(query.goal, 0))>>, e |-> 1,
     heap |-> FreshCells(0, query.n), stack |-> <<Frame(0, 0, 0)>>, trail |-> <<>>,
     choices |-> <<>>, answers |-> <<>>, ball |-> None, clock |-> 0]

RECURSIVE Unbind(_, _, _)
\* Reverse-unbinding of the logged addresses.
Unbind(heap, logged, h) ==
    IF logged = <<>> THEN heap
    ELSE LET a == logged[Len(logged)]
             older == SubSeq(logged, 1, Len(logged) - 1)
         IN  Unbind(IF a <= h THEN [heap EXCEPT ![a] = Ref(a)] ELSE heap, older, h)

\* A reset that leaves the trail as it is.
ResetToKeepTrail(m, mark) ==
    [m EXCEPT !.heap = SubSeq(Unbind(m.heap, SubSeq(m.trail, mark.tr + 1, Len(m.trail)), mark.h),
                              1, mark.h),
              !.stack = SubSeq(m.stack, 1, mark.s)]

\* reset_to(mark) of the three arenas: the bindings logged above the trail
\* mark are undone, heap, stack and trail are truncated to their marks.
ResetTo(m, mark) ==
    [m EXCEPT !.heap = SubSeq(Unbind(m.heap, SubSeq(m.trail, mark.tr + 1, Len(m.trail)), mark.h),
                              1, mark.h),
              !.stack = SubSeq(m.stack, 1, mark.s),
              !.trail = SubSeq(m.trail, 1, mark.tr)]

\* Backtracking takes the alternatives last to first.
NextAlternativeLast(alts) == alts[Len(alts)]

\* The next-alternative pointer: the first clause still untried.
NextAlternative(alts) == Head(alts)

\* One backtrack step: with no choice point the query fails; a catch
\* barrier is popped; else the arenas are reset to the marks of the top
\* choice point, the choice point is popped (its last alternative) or
\* updated, and the next alternative is loaded.
Backtrack(m) ==
    IF m.choices = <<>> THEN [m EXCEPT !.status = "Failed", !.cont = <<>>]
    ELSE LET n == Len(m.choices)
             cp == m.choices[n]
             below == SubSeq(m.choices, 1, n - 1)
             r == ResetTo(m, cp)
         IN  IF cp.kind = "catch" THEN [r EXCEPT !.choices = below]
             ELSE LET alt == NextAlternative(cp.alts)
                      left == SelectSeq(cp.alts, LAMBDA i : i # alt)
                  IN  [r EXCEPT !.status = "Running", !.e = cp.e,
                                !.cont = <<TryItem(cp.goal, alt, n - 1, cp.born)>> \o cp.cont,
                                !.choices = IF left = <<>> THEN below
                                            ELSE below \o <<[cp EXCEPT !.alts = left]>>]

\* Calling a user predicate: the clauses to try are selected; with more
\* than one a choice point is pushed for the others.
CallUser(m, goal, rest) ==
    LET cands == Candidates(Program[goal.f], goal, m.indexing, m.heap)
        try == TryItem(goal, Head(cands), Len(m.choices), m.clock)
    IN  IF cands = <<>> THEN [m EXCEPT !.status = "Backtracking"]
        ELSE IF Len(cands) = 1 THEN [m EXCEPT !.cont = <<try>> \o rest]
        ELSE [m EXCEPT !.cont = <<try>> \o rest,
                       !.choices = Append(@, ChoicePoint(m, Tail(cands), goal, rest))]

\* Trying a clause: its variables are allocated, its head is unified with
\* the call, and for a rule a frame is pushed and the body is scheduled.
ExecTry(m) ==
    LET item == Head(m.cont)
        rest == Tail(m.cont)
        cl == Program[item.goal.f][item.clause]
        base == Len(m.heap)
        u == Unify(<<<<item.goal, Rename(cl.head, base)>>>>,
                   m.heap \o FreshCells(base, cl.n), m.trail)
    IN  IF ~u.ok THEN [m EXCEPT !.status = "Backtracking", !.heap = u.heap, !.trail = u.trail]
        ELSE IF cl.body = <<>> THEN [m EXCEPT !.heap = u.heap, !.trail = u.trail, !.cont = rest]
        ELSE [m EXCEPT !.heap = u.heap, !.trail = u.trail,
                       !.stack = Append(@, Frame(m.e, item.cutB, item.born)),
                       !.e = Len(m.stack) + 1,
                       !.cont = [i \in 1..Len(cl.body) |-> CallItem(Rename(cl.body[i], base))]
                                    \o <<ProceedItem(m.e)>> \o rest]

\* A frame no choice point protects.
Deterministic(m) ==
    /\ m.e = Len(m.stack)
    /\ m.choices # <<>> => m.choices[Len(m.choices)].s < Len(m.stack)

\* Leaving an activation: the frame is freed on a deterministic exit.
ExecProceed(m) ==
    LET item == Head(m.cont)
    IN  [m EXCEPT !.cont = Tail(m.cont), !.e = item.ce,
                  !.stack = IF Deterministic(m) THEN SubSeq(@, 1, Len(@) - 1) ELSE @]

\* A cut that discards every choice point.
CutBarrierBottom(m) == 0

\* The height the cut of the current activation cuts back to.
CutBarrier(m) == m.stack[m.e].cutB

ExecCut(m) ==
    [m EXCEPT !.cont = Tail(m.cont), !.choices = SubSeq(@, 1, CutBarrier(m))]

\* Entering a catch scope: the barrier is recorded and the goal is called
\* in a frame of its own.
ExecCatch(m, goal, rest) ==
    [m EXCEPT !.choices = Append(@, CatchBarrier(m, goal.args[2], goal.args[3], rest)),
              !.stack = Append(@, Frame(m.e, Len(m.choices) + 1, m.clock)),
              !.e = Len(m.stack) + 1,
              !.cont = <<CallItem(goal.args[1]), PopCatchItem(m.clock, m.e)>> \o rest]

\* Leaving a catch scope: a barrier on top of the choice points is popped.
ExecPopCatch(m) ==
    LET item == Head(m.cont)
        n == Len(m.choices)
        ontop == n > 0 /\ m.choices[n].kind = "catch" /\ m.choices[n].id = item.id
        popped == [m EXCEPT !.choices = IF ontop THEN SubSeq(@, 1, n - 1) ELSE @]
    IN  [popped EXCEPT !.cont = Tail(m.cont), !.e = item.ce,
                       !.stack = IF Deterministic(popped) THEN SubSeq(@, 1, Len(@) - 1) ELSE @]

\* The barriers whose scope the continuation is in.
EnclosingBarriers(m) ==
    LET ids == {m.cont[i].id : i \in {j \in 1..Len(m.cont) : m.cont[j].t = "popcatch"}}
    IN  {i \in 1..Len(m.choices) : m.choices[i].kind = "catch" /\ m.choices[i].id \in ids}

\* The barrier one further out than the nearest.
OuterBarrier(enclosing) == CHOOSE i \in enclosing : \A j \in enclosing : i <= j

\* The nearest enclosing barrier.
NearestBarrier(enclosing) == CHOOSE i \in enclosing : \A j \in enclosing : i >= j

RECURSIVE Unwind(_, _)
\* Unwinding: the arenas are reset to the marks of the nearest enclosing
\* barrier and the ball is unified with its catcher; a match runs the
\* recovery goal, a mismatch unwinds further.  With no barrier left the
\* state is restored to the query's initial mark and the outcome is the
\* exception.
Unwind(m, thrown) ==
    LET enclosing == EnclosingBarriers(m)
    IN  IF enclosing = {}
        THEN [ResetTo(m, InitialMark(m))
                EXCEPT !.status = "Exception", !.ball = Some(thrown),
                       !.choices = <<>>, !.cont = <<>>, !.e = 1]
        ELSE LET i == NearestBarrier(enclosing)
                 cp == m.choices[i]
                 r == [ResetTo(m, cp) EXCEPT !.choices = SubSeq(m.choices, 1, i - 1),
                                             !.cont = cp.cont, !.e = cp.e]
                 u == Unify(<<<<thrown, cp.catcher>>>>, r.heap, r.trail)
             IN  IF u.ok
                 THEN [r EXCEPT !.heap = u.heap, !.trail = u.trail,
                                !.cont = <<CallItem(cp.recovery)>> \o cp.cont]
                 ELSE Unwind(r, thrown)

IsAtom(g, name) == g.k = "atom" /\ g.v = name

IsCall(g, f, n) == g.k = "compound" /\ g.f = f /\ Len(g.args) = n

ZeroDivisor ==
    Compound("error", <<Compound("evaluation_error", <<Atom("zero_divisor")>>),
                        Compound("/", <<Atom("/"), Num("2")>>)>>)

ExistenceError(g) ==
    Compound("error", <<Compound("existence_error", <<Atom("procedure"), g>>), g>>)

\* Arithmetic evaluation of a literal or of a division by a literal.
Eval(t, heap) ==
    LET expr == Resolve(t, heap)
    IN  IF IsCall(expr, "/", 2) /\ expr.args[2] = Num("0")
        THEN [ok |-> FALSE, val |-> ZeroDivisor]
        ELSE IF IsCall(expr, "/", 2) /\ expr.args[2] = Num("1")
        THEN [ok |-> TRUE, val |-> expr.args[1]]
        ELSE [ok |-> TRUE, val |-> expr]

\* The instruction the machine is at.
At(m) ==
    IF m.status = "Backtracking" THEN "backtrack"
    ELSE IF m.status # "Running" THEN "stopped"
    ELSE IF m.cont = <<>> THEN "succeed"
    ELSE Head(m.cont).t

\* The ball the goal the machine is at raises, if it raises one: a throw,
\* an evaluation error, a call of an unknown procedure.
Raised(m) ==
    LET g == Deref(Head(m.cont).goal, m.heap)
    IN  IF At(m) # "call" THEN None
        ELSE IF IsCall(g, "throw", 1) THEN Some(Resolve(g.args[1], m.heap))
        ELSE IF IsCall(g, "is", 2)
        THEN IF Eval(g.args[2], m.heap).ok THEN None ELSE Some(Eval(g.args[2], m.heap).val)
        ELSE IF \/ IsAtom(g, "true") \/ IsAtom(g, "fail") \/ IsAtom(g, "!")
                \/ IsCall(g, ",", 2) \/ IsCall(g, "=", 2) \/ IsCall(g, "catch", 3)
                \/ (g.k = "compound" /\ g.f \in DOMAIN Program)
        THEN None
        ELSE Some(ExistenceError(g))

\* Calling a goal: a control construct, a builtin or a user predicate.
ExecCall(m) ==
    LET g == Deref(Head(m.cont).goal, m.heap)
        rest == Tail(m.cont)
    IN  IF IsSome(Raised(m)) THEN Unwind(m, Unwrap(Raised(m)))
        ELSE IF IsAtom(g, "true") THEN [m EXCEPT !.cont = rest]
        ELSE IF IsAtom(g, "fail") THEN [m EXCEPT !.status = "Backtracking"]
        ELSE IF IsAtom(g, "!") THEN ExecCut(m)
        ELSE IF IsCall(g, ",", 2)
        THEN [m EXCEPT !.cont = <<CallItem(g.args[1]), CallItem(g.args[2])>> \o rest]
        ELSE IF IsCall(g, "=", 2)
        THEN LET u == Unify(<<<<g.args[1], g.args[2]>>>>, m.heap, m.trail)
             IN  [m EXCEPT !.heap = u.heap, !.trail = u.trail,
                           !.status = IF u.ok THEN "Running" ELSE "Backtracking",
                           !.cont = rest]
        ELSE IF IsCall(g, "is", 2)
        THEN LET v == Eval(g.args[2], m.heap)
                 u == Unify(<<<<g.args[1], v.val>>>>, m.heap, m.trail)
             IN  [m EXCEPT !.heap = u.heap, !.trail = u.trail,
                           !.status = IF u.ok THEN "Running" ELSE "Backtracking",
                           !.cont = rest]
        ELSE IF IsCall(g, "catch", 3) THEN ExecCatch(m, g, rest)
        ELSE CallUser(m, g, rest)

\* The answer of a solution: the values of the query's variables.
Answer(m) == [i \in 1..m.nvars |-> Resolve(Ref(i), m.heap)]

\* An empty continuation is a solution; the machine can be resumed.
Succeed(m) == [m EXCEPT !.status = "Succeeded", !.answers = Append(@, Answer(m))]

\* Asking for a further solution backtracks into the remaining choices.
Resume(m) == [m EXCEPT !.status = "Backtracking"]

\* One step of the machine.
Step(m) ==
    LET at == At(m)
        stepped == CASE at = "backtrack" -> Backtrack(m)
                     [] at = "succeed" -> Succeed(m)
                     [] at = "call" -> ExecCall(m)
                     [] at = "try" -> ExecTry(m)
                     [] at = "proceed" -> ExecProceed(m)
                     [] at = "popcatch" -> ExecPopCatch(m)
                     [] OTHER -> m
    IN  [stepped EXCEPT !.clock = m.clock + 1]

\* A poll at goal calls only.
PollsAtCallsOnly(m) == At(m) = "call"

\* The boundaries at which the interrupt flag is polled: a goal call and a
\* backtrack.
Polls(m) == At(m) \in {"call", "backtrack"}

\* An interrupted query is abandoned.
Halt(m) == [m EXCEPT !.status = "Halted", !.cont = <<>>, !.clock = m.clock + 1]

\* One step under the interrupt flag.
Execute(m, interrupt) == IF interrupt /\ Polls(m) THEN Halt(m) ELSE Step(m)

Stopped(m) == m.status \in {"Failed", "Exception", "Halted"}

RECURSIVE RunToEnd(_)
\* All solutions of an uninterrupted run: the machine is resumed after
\* every solution until it stops.
RunToEnd(m) ==
    IF Stopped(m) THEN m
    ELSE IF m.status = "Succeeded" THEN RunToEnd(Resume(m))
    ELSE RunToEnd(Step(m))

\* The queries run against the clause database.
Query(goal, n) == [goal |-> goal, n |-> n]

Conj(a, b) == Compound(",", <<a, b>>)

Catch(goal, catcher, recovery) == Compound("catch", <<goal, catcher, recovery>>)

Throw(thrown) == Compound("throw", <<thrown>>)

\*   p(X)                       c(X)                     q(Y), c(X)
\*   t(X)                       g(X)
FactQueries == {Query(Call1("p", Local(1)), 1)}

CutQueries ==
    {Query(Call1("c", Local(1)), 1),
     Query(Conj(Call1("q", Local(2)), Call1("c", Local(1))), 2)}

RollbackQueries == {Query(Call1("t", Local(1)), 1), Query(Call1("g", Local(1)), 1)}

\*   k(a, V)    k(b, V)    k(Z, V)    k(f(c), V)    k(c, V)
IndexQueries ==
    {Query(Call2("k", Atom("a"), Local(1)), 1), Query(Call2("k", Atom("b"), Local(1)), 1),
     Query(Call2("k", Local(2), Local(1)), 2),
     Query(Call2("k", Call1("f", Atom("c")), Local(1)), 1),
     Query(Call2("k", Atom("c"), Local(1)), 1)}

\*   catch(throw(my_error), my_error, true)
\*   throw(foo)
\*   catch(throw(foo), bar, true)
\*   catch((q(Y), throw(oops)), oops, true)
\*   catch(catch(throw(e), _, X = inner), _, X = outer)
\*   catch(p(X), _, true), throw(late)
\*   X is 1 / 0
ThrowQueries ==
    {Query(Catch(Throw(Atom("my_error")), Atom("my_error"), Atom("true")), 0),
     Query(Throw(Atom("foo")), 0),
     Query(Catch(Throw(Atom("foo")), Atom("bar"), Atom("true")), 0),
     Query(Catch(Conj(Call1("q", Local(1)), Throw(Atom("oops"))), Atom("oops"), Atom("true")), 1),
     Query(Catch(Catch(Throw(Atom("e")), Local(2), Call2("=", Local(1), Atom("inner"))),
                 Local(3), Call2("=", Local(1), Atom("outer"))), 3),
     Query(Conj(Catch(Call1("p", Local(1)), Local(2), Atom("true")), Throw(Atom("late"))), 2),
     Query(Call2("is", Local(1), Call2("/", Num("1"), Num("0"))), 1)}

Queries == FactQueries \cup CutQueries \cup RollbackQueries \cup IndexQueries \cup ThrowQueries

component == <<NEXT_ID, machines, query_to_machine, binding_sets, term_refs, handles>>

ComponentIdle ==
    /\ NEXT_ID = 1
    /\ machines = EmptyMap
    /\ query_to_machine = EmptyMap
    /\ binding_sets = EmptyMap
    /\ term_refs = EmptyMap
    /\ handles = [machines |-> {}, queries |-> EmptyMap, binding_sets |-> {}, term_refs |-> {}]

\* A query is started on a machine with or without first-argument indexing.
InitRuntime ==
    /\ \E query \in Queries, indexing \in BOOLEAN : wam = Start(query, indexing)
    /\ INTERRUPT = FALSE
    /\ ComponentIdle
    /\ InterningIdle
    /\ CliIdle

\* The machine executes the instruction it is at.
Run(at) ==
    /\ At(wam) = at
    /\ wam' = Execute(wam, INTERRUPT)
    /\ UNCHANGED <<INTERRUPT, component, interning, cli>>

CallGoal == Run("call")

TryClause == Run("try")

Proceed == Run("proceed")

PopCatch == Run("popcatch")

Solution == Run("succeed")

BacktrackStep == Run("backtrack")

\* The host asks for the next solution.
NextSolution ==
    /\ wam.status = "Succeeded"
    /\ wam' = Resume(wam)
    /\ UNCHANGED <<INTERRUPT, component, interning, cli>>

\* The Ctrl-C handler stores true into the flag.
CtrlC ==
    /\ ~INTERRUPT
    /\ INTERRUPT' = TRUE
    /\ UNCHANGED <<wam, component, interning, cli>>

Machine == CallGoal \/ TryClause \/ Proceed \/ PopCatch \/ Solution \/ BacktrackStep

NextRuntime == Machine \/ NextSolution \/ CtrlC

SpecRuntime == InitRuntime /\ [][NextRuntime]_vars

----------------------------------------------------------------------------
(* The atom table: one intern map shared by concurrent callers.  The id of *)
(* an atom is its place in the table.  A caller first looks the text up    *)
(* under the read side of the synchronization and, on a miss, inserts it   *)
(* if absent under the write side; other callers run between the two.      *)

Callers == 1..MaxCallers

Texts == {"foo", "bar"}

\* The id of a text in the table, if it has one.
lookup(table, text) ==
    IF \E i \in 1..Len(table) : table[i] = text
    THEN Some(CHOOSE i \in 1..Len(table) : table[i] = text)
    ELSE None

\* resolve(AtomId) -> text.
resolve(table, id) == table[id]

\* An insertion that does not look again.
insert_unchecked(table, text) == [table |-> Append(table, text), id |-> Len(table) + 1]

\* Insert-if-absent: the text gets a new id only if it still has none.
insert_if_absent(table, text) ==
    IF IsSome(lookup(table, text))
    THEN [table |-> table, id |-> Unwrap(lookup(table, text))]
    ELSE [table |-> Append(table, text), id |-> Len(table) + 1]

\* A caller outside intern(), with the atoms it has been handed so far.
Outside(held) == [pc |-> "outside", text |-> "", id |-> 0, missed |-> FALSE, held |-> held]

InitAtoms ==
    /\ atom_table = <<>>
    /\ interners = [c \in Callers |-> Outside({})]
    /\ ComponentIdle
    /\ RuntimeIdle
    /\ CliIdle

\* intern(text) is called.
Intern(c, text) ==
    /\ interners[c].pc = "outside"
    /\ interners' = [interners EXCEPT ![c].pc = "lookup", ![c].text = text]
    /\ UNCHANGED <<atom_table, component, runtime, cli>>

\* The read path: a text already in the table has its id.
Lookup(c) ==
    LET found == lookup(atom_table, interners[c].text)
    IN  /\ interners[c].pc = "lookup"
        /\ interners' = IF IsSome(found)
                         THEN [interners EXCEPT ![c].pc = "return", ![c].id = Unwrap(found)]
                         ELSE [interners EXCEPT ![c].pc = "insert", ![c].missed = TRUE]
        /\ UNCHANGED <<atom_table, component, runtime, cli>>

\* The write path after a miss.
Insert(c) ==
    LET r == insert_if_absent(atom_table, interners[c].text)
    IN  /\ interners[c].pc = "insert"
        /\ atom_table' = r.table
        /\ interners' = [interners EXCEPT ![c].pc = "return", ![c].id = r.id]
        /\ UNCHANGED <<component, runtime, cli>>

\* intern() returns the id to its caller.
Return(c) ==
    /\ interners[c].pc = "return"
    /\ interners' = [interners EXCEPT
                        ![c] = Outside(@.held \cup {[text |-> @.text, id |-> @.id]})]
    /\ UNCHANGED <<atom_table, component, runtime, cli>>

NextAtoms ==
    \E c \in Callers :
        \/ \E text \in Texts : Intern(c, text)
        \/ Lookup(c)
        \/ Insert(c)
        \/ Return(c)

SpecAtoms == InitAtoms /\ [][NextAtoms]_vars

----------------------------------------------------------------------------
(* The REPL loops of the command line programs: run_repl of wasi/cli and   *)
(* the repl branch of run_impl of wasi/cli-component.  A line is the       *)
(* sequence of its words and blanks; a query sent to the machine is        *)
(* recorded in sent.                                                       *)

Whitespace == {" ", "\n"}

\* The lines a user types, without their line end.
InputLines ==
    {<<>>, <<" ">>, <<"exit", ".">>, <<"halt", ".">>, <<"true", ".">>, <<" ", "true">>}

\* What standard input delivers to a read: a line, or an error.
ReadItems == {[ok |-> TRUE, line |-> line] : line \in InputLines} \cup {[ok |-> FALSE]}

\* stdin.read_line(&mut input): Ok(0) with nothing appended at end of file,
\* Ok(n) with the line and its line end, or Err.
read_line(stdin) ==
    IF stdin = <<>>
    THEN [res |-> [ok |-> TRUE, n |-> 0], input |-> <<>>, stdin |-> stdin]
    ELSE IF Head(stdin).ok
    THEN [res |-> [ok |-> TRUE, n |-> Len(Head(stdin).line) + 1],
          input |-> Head(stdin).line \o <<"\n">>, stdin |-> Tail(stdin)]
    ELSE [res |-> [ok |-> FALSE, n |-> 0], input |-> <<>>, stdin |-> Tail(stdin)]

RECURSIVE trim(_)
\* str::trim: leading and trailing whitespace removed.
trim(input) ==
    IF input = <<>> THEN input
    ELSE IF Head(input) \in Whitespace THEN trim(Tail(input))
    ELSE IF input[Len(input)] \in Whitespace THEN trim(SubSeq(input, 1, Len(input) - 1))
    ELSE input

Leaves(input) == input = <<"exit", ".">> \/ input = <<"halt", ".">>

\* One turn of the loop of run_repl (wasi/cli): a read of zero bytes and a
\* read error leave the loop, an empty line is skipped, exit. and halt.
\* leave the loop, anything else is sent as a query, with a period added
\* if it has none.
run_repl(r) ==
    LET rd == read_line(r.stdin)
        input == trim(rd.input)
        query == IF input[Len(input)] = "." THEN input ELSE input \o <<".">>
        read == [r EXCEPT !.stdin = rd.stdin]
    IN  IF ~rd.res.ok \/ rd.res.n = 0 THEN [read EXCEPT !.pc = "exited"]
        ELSE IF input = <<>> THEN read
        ELSE IF Leaves(input) THEN [read EXCEPT !.pc = "exited"]
        ELSE [read EXCEPT !.sent = Append(@, query)]

\* One turn of the loop of run_impl (wasi/cli-component): only a read
\* error leaves the loop at the read; an empty input is skipped, exit. and
\* halt. leave the loop, anything else is sent as a query.
run_impl(r) ==
    LET rd == read_line(r.stdin)
        input == trim(rd.input)
        read == [r EXCEPT !.stdin = rd.stdin]
    IN  IF ~rd.res.ok THEN [read EXCEPT !.pc = "exited"]
        ELSE IF input = <<>> THEN read
        ELSE IF Leaves(input) THEN [read EXCEPT !.pc = "exited"]
        ELSE [read EXCEPT !.sent = Append(@, input)]

\* The turn of the loop of the program that runs.
Turn(r) == IF r.program = "cli" THEN run_repl(r) ELSE run_impl(r)

RECURSIVE Inputs(_)
\* The contents of standard input of up to n reads.
Inputs(n) ==
    IF n = 0 THEN {<<>>}
    ELSE Inputs(n - 1) \cup {Append(s, item) : s \in Inputs(n - 1), item \in ReadItems}

InitRepl ==
    /\ \E program \in {"cli", "cli-component"}, stdin \in Inputs(MaxLines) :
           repl = [program |-> program, pc |-> "loop", stdin |-> stdin, sent |-> <<>>]
    /\ proc = [pc |-> "idle"]
    /\ ComponentIdle
    /\ RuntimeIdle
    /\ InterningIdle

RunRepl ==
    /\ repl.pc = "loop"
    /\ repl.program = "cli"
    /\ repl' = run_repl(repl)
    /\ UNCHANGED <<proc, component, runtime, interning>>

RunImpl ==
    /\ repl.pc = "loop"
    /\ repl.program = "cli-component"
    /\ repl' = run_impl(repl)
    /\ UNCHANGED <<proc, component, runtime, interning>>

NextRepl == RunRepl \/ RunImpl

SpecRepl == InitRepl /\ [][NextRepl]_vars

----------------------------------------------------------------------------
(* The command line programs from their start: main of wasi/cli and        *)
(* run_impl of wasi/cli-component.  An argument, like a line, is the       *)
(* sequence of its parts.  proc holds the program's position, what it      *)
(* parsed, the calls it has made on the machine, in order, what it has     *)
(* printed, one item per arm that prints, and its exit status.  What the   *)
(* machine and the file system answer is drawn at each call.               *)

MaxArgs == 3

\* The libraries whose loading fails in one run.
MaxFailed == 1

CommandLinePrograms == {"cli", "cli-component"}

\* The arguments after the program name.
ArgWords ==
    {<<"-h">>, <<"-q">>, <<"-f">>, <<"-x">>, <<"a", ".pl">>, <<"d", "/", "b", ".pl">>,
     <<"true", ".">>}

starts_with_dash(arg) == Head(arg) \in {"-h", "--help", "-v", "--version", "-q", "--query",
                                         "-f", "--file", "-x"}

ends_with(arg, suffix) == arg # <<>> /\ arg[Len(arg)] = suffix

\* What the argument loop has set when it starts.
Parsed0 ==
    [help |-> FALSE, version |-> FALSE, query |-> None, files |-> <<>>, repl |-> TRUE,
     failed |-> None]

RECURSIVE ParseArgs(_, _, _, _)
\* The argument loop from args[i] on: while i < args.len() { match .. }.
\* The two programs differ in the last arms: wasi/cli refuses an unknown
\* option and takes any other word as the query if it has none, while
\* wasi/cli-component skips both.
ParseArgs(program, args, i, a) ==
    IF i > Len(args) \/ IsSome(a.failed) THEN a
    ELSE LET arg == args[i]
         IN  IF arg \in {<<"-h">>, <<"--help">>}
             THEN ParseArgs(program, args, i + 1, [a EXCEPT !.help = TRUE, !.repl = FALSE])
             ELSE IF arg \in {<<"-v">>, <<"--version">>}
             THEN ParseArgs(program, args, i + 1, [a EXCEPT !.version = TRUE, !.repl = FALSE])
             ELSE IF arg \in {<<"-q">>, <<"--query">>}
             THEN IF i + 1 <= Len(args)
                  THEN ParseArgs(program, args, i + 2,
                                 [a EXCEPT !.query = Some(args[i + 1]), !.repl = FALSE])
                  ELSE [a EXCEPT !.failed = Some(<<"--query requires an argument">>)]
             ELSE IF arg \in {<<"-f">>, <<"--file">>}
             THEN IF i + 1 <= Len(args)
                  THEN ParseArgs(program, args, i + 2,
                                 [a EXCEPT !.files = Append(@, args[i + 1])])
                  ELSE [a EXCEPT !.failed = Some(<<"--file requires an argument">>)]
             ELSE IF ends_with(arg, ".pl")
             THEN ParseArgs(program, args, i + 1, [a EXCEPT !.files = Append(@, arg)])
             ELSE IF program = "cli-component"
             THEN ParseArgs(program, args, i + 1, a)
             ELSE IF starts_with_dash(arg)
             THEN [a EXCEPT !.failed = Some(<<"Unknown option: ">> \o arg)]
             ELSE IF a.query = None
             THEN ParseArgs(program, args, i + 1,
                            [a EXCEPT !.query = Some(arg), !.repl = FALSE])
             ELSE ParseArgs(program, args, i + 1, a)


essential_libraries ==
    <<"charsio", "error", "files", "iso_ext", "lambda", "lists", "si", "os", "format">>

\* format!("use_module(library({})).", lib)
LibraryQuery(lib) == <<"use_module(library(", lib, ")).">>

\* A call on the machine or on what it handed out, with what it returned.
Call(op, arg, res) == [op |-> op, arg |-> arg, res |-> res]

\* One arm that prints: the stream and the lines.
Printed(to, lines) == [to |-> to, lines |-> lines]

\* std::process::exit(code): the process ends at once, no destructor runs.
Exit(p, code) == [p EXCEPT !.pc = "exited", !.status = Some(code)]

\* A return from main or run_impl: the machine goes out of scope.
ReturnFromMain(p, code) ==
    [p EXCEPT !.pc = "exited", !.status = Some(code),
              !.calls = Append(@, Call("drop_machine", <<>>, "Ok"))]

\* The loop that is over is left: from the libraries to the files, from
\* the files to the query or the REPL.
Advance(p) ==
    LET q == IF p.pc = "libraries" /\ p.lib > Len(essential_libraries)
             THEN [p EXCEPT !.pc = "files"] ELSE p
    IN  IF q.pc = "files" /\ q.file > Len(q.files) THEN [q EXCEPT !.pc = "run"] ELSE q

\* From the start to Machine::new: the arguments are parsed, help and
\* version are printed, the machine is made.
Begin(p) ==
    LET a == ParseArgs(p.program, p.args, 1, Parsed0)
        q == [p EXCEPT !.query = a.query, !.files = a.files, !.repl = a.repl]
    IN  IF IsSome(a.failed)
        THEN Exit([q EXCEPT !.out = Append(@, Printed("stderr", <<Unwrap(a.failed)>>))], 1)
        ELSE IF a.help
        THEN [q EXCEPT !.pc = "exited", !.status = Some(0),
                       !.out = Append(@, Printed("stdout", <<<<"USAGE:">>>>))]
        ELSE IF a.version
        THEN [q EXCEPT !.pc = "exited", !.status = Some(0),
                       !.out = Append(@, Printed("stdout", <<<<"Scryer Prolog">>>>))]
        ELSE Advance([q EXCEPT !.calls = Append(@, Call("new", <<>>, "Ok")),
                               !.pc = IF p.program = "cli" THEN "libraries" ELSE "files"])

\* What the machine answers when a library is loaded: run_query fails, or
\* it succeeds and next reports the library loaded or an error.
LibraryAnswers ==
    {[run_query |-> "Err", next |-> "none"],
     [run_query |-> "Ok", next |-> "True"],
     [run_query |-> "Ok", next |-> "Err"]}

LibraryFails(answer) == answer # [run_query |-> "Ok", next |-> "True"]

\* One turn of the loop over the essential libraries (wasi/cli): the
\* result of next is dropped unseen, a run_query that fails is warned of.
LoadLibrary(p, answer) ==
    LET lib == essential_libraries[p.lib]
        query == LibraryQuery(lib)
        q == [p EXCEPT !.lib = @ + 1]
    IN  Advance(
        IF answer.run_query = "Ok"
        THEN [q EXCEPT !.calls = @ \o <<Call("run_query", query, "Ok"),
                                        Call("next", <<>>, answer.next),
                                        Call("drop", <<>>, "Ok")>>]
        ELSE [q EXCEPT !.calls = Append(@, Call("run_query", query, "Err")),
                       !.out = Append(@, Printed("stderr",
                                    <<<<"Warning: Failed to load library ", lib>>>>))])

RECURSIVE trim_end_matches(_, _)
trim_end_matches(path, suffix) ==
    IF ends_with(path, suffix)
    THEN trim_end_matches(SubSeq(path, 1, Len(path) - 1), suffix)
    ELSE path

RECURSIVE rsplit_next(_, _)
\* path.rsplit(sep).next(): what follows the last sep, all of it if none.
rsplit_next(path, sep) ==
    IF path = <<>> \/ path[Len(path)] = sep THEN <<>>
    ELSE Append(rsplit_next(SubSeq(path, 1, Len(path) - 1), sep), path[Len(path)])

ModuleNameOf(program, file_path) ==
    IF program = "cli"
    THEN trim_end_matches(rsplit_next(file_path, "/"), ".pl")
    ELSE trim_end_matches(file_path, ".pl")

\* What happens to a file: it cannot be read, the machine refuses to
\* consult it, or it is loaded.
FileAnswers == {"unreadable", "refused", "loaded"}

\* One turn of the loop over the files.  wasi/cli exits with status 1 on
\* a file that is not read or not consulted; wasi/cli-component reports it
\* and goes on.
LoadFile(p, answer) ==
    LET file_path == p.files[p.file]
        consult == Call("consult_module_string", ModuleNameOf(p.program, file_path),
                        IF answer = "loaded" THEN "Ok" ELSE "Err")
        q == [p EXCEPT !.file = @ + 1,
                       !.calls = IF answer = "unreadable" THEN @ ELSE Append(@, consult),
                       !.out = Append(@, Printed("stderr",
                                  <<<<IF answer = "loaded" THEN "Loaded: "
                                      ELSE IF answer = "refused" THEN "Failed to load "
                                      ELSE "Could not read file ", file_path>>>>))]
    IN  IF answer # "loaded" /\ p.program = "cli" THEN Exit(q, 1) ELSE Advance(q)

\* The messages of the errors the machine returns.
ErrorTexts == {<<"Syntax error">>, <<"Undefined procedure:", "foo/0">>, <<"boom">>}

\* The solutions next() hands out; a binding set is given by its variables.
SolutionAnswers ==
    {[kind |-> "True"], [kind |-> "False"], [kind |-> "Exception"],
     [kind |-> "Bindings", vars |-> <<>>], [kind |-> "Bindings", vars |-> <<"X">>]}

\* What the machine answers to the query of the user: run_query fails, or
\* it succeeds and next returns a solution, none, or an error.
QueryAnswers ==
    {[run_query |-> "Err", msg |-> msg] : msg \in ErrorTexts}
    \cup {[run_query |-> "Ok", next |-> "Some", solution |-> sol] : sol \in SolutionAnswers}
    \cup {[run_query |-> "Ok", next |-> "None"]}
    \cup {[run_query |-> "Ok", next |-> "Err", msg |-> msg] : msg \in ErrorTexts}

RECURSIVE ReadBindings(_)
\* for var in vars { bindings.get_binding(&var) .. term.to_string() }: the
\* term ref is dropped at the end of each turn.
ReadBindings(names) ==
    IF names = <<>> THEN <<>>
    ELSE <<Call("get_binding", Head(names), "Some"), Call("to_string", <<>>, "Ok"),
           Call("drop_term", <<>>, "Ok")>> \o ReadBindings(Tail(names))

\* The calls of an arm that prints a binding set, to the drop of the set.
BindingCalls(names) ==
    <<Call("variables", <<>>, names)>> \o ReadBindings(names)
        \o <<Call("drop_bindings", <<>>, "Ok")>>

\* print_solution (wasi/cli): one line without its end.
print_solution(p, solution) ==
    LET text == CASE solution.kind = "True" -> <<"true">>
                  [] solution.kind = "False" -> <<"false">>
                  [] solution.kind = "Exception" -> <<"exception: ">>
                  [] solution.kind = "Bindings" ->
                        IF solution.vars = <<>> THEN <<"true">>
                        ELSE [i \in 1..Len(solution.vars) |-> solution.vars[i]]
    IN  [p EXCEPT !.calls = IF solution.kind = "Bindings"
                            THEN @ \o BindingCalls(solution.vars) ELSE @,
                  !.out = Append(@, Printed("stdout", <<text>>))]

\* print_error (wasi/cli): the message, with a hint for some.
print_error(p, error_msg) ==
    LET hint == IF Head(error_msg) = "Undefined procedure:"
                THEN <<<<"Hint: The predicate might not be defined or imported.">>>>
                ELSE IF "Syntax error" \in Range(error_msg)
                THEN <<<<"Hint: Check your query syntax">>>>
                ELSE <<>>
    IN  [p EXCEPT !.out = Append(@, Printed("stderr", <<error_msg>> \o hint))]

\* execute_query (wasi/cli): run_query, and in its loop one next(); every
\* arm leaves the loop, the Err arms by the exit of the process.
execute_query(p, answer) ==
    LET query_str == Unwrap(p.query)
    IN  IF answer.run_query = "Err"
        THEN Exit([p EXCEPT !.calls = Append(@, Call("run_query", query_str, "Err")),
                            !.out = Append(@, Printed("stderr",
                                        IF "Syntax error" \in Range(answer.msg)
                                        THEN <<answer.msg, <<"Please check your query syntax.">>>>
                                        ELSE <<<<"Error: ">> \o answer.msg>>))], 1)
        ELSE LET q == [p EXCEPT !.calls = @ \o <<Call("run_query", query_str, "Ok"),
                                                 Call("next", <<>>, answer.next)>>]
                 drop == Call("drop", <<>>, "Ok")
             IN  IF answer.next = "Some"
                 THEN LET r == print_solution(q, answer.solution)
                      IN  ReturnFromMain([r EXCEPT !.calls = Append(@, drop)], 0)
                 ELSE IF answer.next = "None"
                 THEN ReturnFromMain(
                        [q EXCEPT !.calls = Append(@, drop),
                                  !.out = Append(@, Printed("stdout", <<<<"false.">>>>))], 0)
                 ELSE Exit(print_error(q, answer.msg), 1)

\* A query branch whose loop is not left after a solution: next() is
\* called again and reports the end of the solutions.
ExecuteQueryImplNoBreak(p, answer) ==
    LET query_str == Unwrap(p.query)
    IN  IF answer.run_query = "Err"
        THEN ReturnFromMain(
                [p EXCEPT !.calls = Append(@, Call("run_query", query_str, "Err")),
                          !.out = Append(@, Printed("stderr",
                                        <<<<"Failed to run query: ">> \o answer.msg>>))], 0)
        ELSE ReturnFromMain(
                [p EXCEPT !.calls = @ \o <<Call("run_query", query_str, "Ok"),
                                           Call("next", <<>>, answer.next)>>
                                      \o (IF answer.next = "Some"
                                          THEN <<Call("next", <<>>, "None")>> ELSE <<>>)
                                      \o <<Call("drop", <<>>, "Ok")>>,
                          !.out = Append(@, Printed(IF answer.next = "Err" THEN "stderr"
                                                    ELSE "stdout", <<<<"false.">>>>))], 0)

\* The query branch of run_impl (wasi/cli-component): run_query, and in
\* its loop one next(); every arm leaves the loop by break, and the query
\* handle goes out of scope.
ExecuteQueryImpl(p, answer) ==
    LET query_str == Unwrap(p.query)
    IN  IF answer.run_query = "Err"
        THEN ReturnFromMain(
                [p EXCEPT !.calls = Append(@, Call("run_query", query_str, "Err")),
                          !.out = Append(@, Printed("stderr",
                                        <<<<"Failed to run query: ">> \o answer.msg>>))], 0)
        ELSE LET q == [p EXCEPT !.calls = @ \o <<Call("run_query", query_str, "Ok"),
                                                 Call("next", <<>>, answer.next)>>]
                 solution_count == IF answer.next = "Some" THEN 1 ELSE 0
                 r == IF answer.next = "Some"
                      THEN LET solution == answer.solution
                           IN  IF solution.kind = "True"
                               THEN [q EXCEPT !.out = Append(@, Printed("stdout", <<<<"true.">>>>))]
                               ELSE IF solution.kind = "False"
                               THEN IF solution_count = 1
                                    THEN [q EXCEPT !.out =
                                            Append(@, Printed("stdout", <<<<"false.">>>>))]
                                    ELSE q
                               ELSE IF solution.kind = "Exception"
                               THEN [q EXCEPT !.out =
                                        Append(@, Printed("stderr", <<<<"Exception: ">>>>))]
                               ELSE [q EXCEPT
                                        !.calls = @ \o BindingCalls(solution.vars),
                                        !.out = Append(@, Printed("stdout",
                                            [i \in 1..Len(solution.vars) |->
                                                <<solution.vars[i], " = ">>] \o <<<<".">>>>))]
                      ELSE IF answer.next = "None"
                      THEN IF solution_count = 0
                           THEN [q EXCEPT !.out = Append(@, Printed("stdout", <<<<"false.">>>>))]
                           ELSE q
                      ELSE [q EXCEPT !.out = Append(@, Printed("stderr",
                                                <<<<"Query error: ">> \o answer.msg>>))]
             IN  ReturnFromMain([r EXCEPT !.calls = Append(@, Call("drop", <<>>, "Ok"))], 0)

RECURSIVE ArgLists(_)
\* The argument lists of up to n arguments.
ArgLists(n) ==
    IF n = 0 THEN {<<>>}
    ELSE ArgLists(n - 1) \cup {Append(args, arg) : args \in ArgLists(n - 1), arg \in ArgWords}

\* The libraries whose loading has failed so far.
Failed(p) ==
    Cardinality({i \in 1..Len(p.calls) :
                    /\ p.calls[i].op \in {"run_query", "next"}
                    /\ p.calls[i].res = "Err"})

InitMain ==
    /\ \E program \in CommandLinePrograms, args \in ArgLists(MaxArgs) :
           proc = [program |-> program, args |-> args, pc |-> "start",
                   query |-> None, files |-> <<>>, repl |-> TRUE, lib |-> 1, file |-> 1,
                   calls |-> <<>>, out |-> <<>>, status |-> None]
    /\ repl = [pc |-> "idle"]
    /\ ComponentIdle
    /\ RuntimeIdle
    /\ InterningIdle

Main(p) == proc' = p /\ UNCHANGED <<repl, component, runtime, interning>>

StartProgram == proc.pc = "start" /\ Main(Begin(proc))

LoadEssentialLibrary ==
    /\ proc.pc = "libraries"
    /\ \E answer \in LibraryAnswers :
           /\ LibraryFails(answer) => Failed(proc) < MaxFailed
           /\ Main(LoadLibrary(proc, answer))

LoadFiles ==
    /\ proc.pc = "files"
    /\ \E answer \in FileAnswers : Main(LoadFile(proc, answer))

\* if let Some(query_str) = query: the query of the command line.
ExecuteQuery ==
    /\ proc.pc = "run" /\ IsSome(proc.query)
    /\ \E answer \in QueryAnswers :
           Main(IF proc.program = "cli" THEN execute_query(proc, answer)
                ELSE ExecuteQueryImpl(proc, answer))

\* else if repl: the program goes on in its REPL loop.  repl is false
\* only with help, version or a query, so with no query the last arm,
\* else if !files.is_empty(), is never taken.
EnterRepl ==
    /\ proc.pc = "run" /\ proc.query = None /\ proc.repl
    /\ Main([proc EXCEPT !.pc = "repl",
                         !.out = Append(@, Printed("stdout", <<<<"Scryer Prolog v0.9.4">>>>))])

NextMain ==
    \/ StartProgram
    \/ LoadEssentialLibrary
    \/ LoadFiles
    \/ ExecuteQuery
    \/ EnterRepl

SpecMain == InitMain /\ [][NextMain]_vars

----------------------------------------------------------------------------
(* Properties.  A property of what a call returns is stated over every     *)
(* call the host can make in a reachable state: the method applied to      *)
(* ComponentState.                                                         *)

\* The machine that answers for query q treats q as its query in progress.
ActiveIn(st, q) ==
    /\ q \in DOMAIN st.query_to_machine
    /\ st.query_to_machine[q] \in DOMAIN st.machines
    /\ IsSome(st.machines[st.query_to_machine[q]].active_query)
    /\ Unwrap(st.machines[st.query_to_machine[q]].active_query).id = q

ConsultRefusal == Err(<<"Cannot consult module while query is active">>)

\* C1: on a query handle on which next() has reported Exhausted, the next
\* call of next() reports Exhausted again: no error, no solution.
C1_ExhaustedStays ==
    \A q \in DOMAIN handles.queries :
        "Exhausted" \in handles.queries[q].reported
            => OutcomeKind(QueryNext(ComponentState, q).res) = "Exhausted"

\* C2: consult_module_string on a machine with an active query returns
\* 'Cannot consult module while query is active' and changes nothing: the
\* clause table, the active query and query_to_machine stay as they are.
C2_ConsultRefusedWhileActive ==
    \A self \in handles.machines, module_name \in ModuleNames, program \in Programs :
        IsSome(machines[self].active_query)
            => LET r == consult_module_string(ComponentState, self, module_name, program)
               IN  /\ r.res = ConsultRefusal
                   /\ r.st = ComponentState

\* A machine with a program loaded and a query in progress refuses a consult.
C2_Witness ==
    \E self \in handles.machines, program \in GoodPrograms :
        /\ IsSome(machines[self].active_query)
        /\ "facts" \in DOMAIN machines[self].machine.db
        /\ consult_module_string(ComponentState, self, "facts", program).res = ConsultRefusal

\* C3: a consult of a text that does not compile returns an Err.
C3_BadConsultIsErr ==
    \A self \in handles.machines, module_name \in ModuleNames, program \in BadPrograms :
        consult_module_string(ComponentState, self, module_name, program).res.tag = "Err"

\* The ids query_to_machine maps to machine m.
QueriesOf(st, m) == {q \in DOMAIN st.query_to_machine : st.query_to_machine[q] = m}

\* C4: a machine holds at most one live stored query state, the one of its
\* active query, and the engine never starts a query while another one of
\* the machine is alive; run_query on a machine with an active query has
\* dropped the old stored state and unmapped its id when the engine starts.
C4_OneQueryPerMachine ==
    \A self \in DOMAIN machines :
        LET ms == machines[self]
        IN  /\ ms.machine.queries = IF IsSome(ms.active_query) THEN 1 ELSE 0
            /\ ~ms.machine.overlap
            /\ QueriesOf(ComponentState, self)
                    = (IF IsSome(ms.active_query) THEN {Unwrap(ms.active_query).id} ELSE {})
            /\ \A query \in Goals :
                    LET r == run_query(ComponentState, self, query)
                    IN  /\ ~r.st.machines[self].machine.overlap
                        /\ r.st.machines[self].machine.queries <= 1
                        /\ IsSome(ms.active_query) =>
                                Unwrap(ms.active_query).id \notin DOMAIN r.st.query_to_machine

\* A machine whose active query replaced an earlier one: the earlier handle
\* is still held, has not run to its end, and is no longer mapped.
C4_Witness ==
    \E q \in DOMAIN handles.queries :
        LET m == handles.queries[q].machine
        IN  /\ handles.queries[q].reported = {}
            /\ q \notin DOMAIN query_to_machine
            /\ m \in DOMAIN machines
            /\ IsSome(machines[m].active_query)
            /\ Unwrap(machines[m].active_query).id > q
            /\ machines[m].machine.queries = 1

SolutionKinds == {"True", "False", "Exception", "Bindings"}

\* The id of the machine's active query, if it has one.
ActiveId(ms) == IF IsSome(ms.active_query) THEN Some(Unwrap(ms.active_query).id) ELSE None

\* The step ends query q in one of the four ways a query ends.
EndsQuery(q) ==
    \/ Next_(q) /\ OutcomeKind(QueryNext(ComponentState, q).res) = "Exhausted"
    \/ \E query \in Goals : RunQuery(query_to_machine[q], query)
    \/ DropQuery(q)
    \/ DropMachine(query_to_machine[q])

\* C5: a query in progress stays in progress, with its id in
\* query_to_machine, over every step but a next() on it that reports
\* Exhausted, a run_query on its machine, the drop of its handle and the
\* drop of its machine; in particular over a next() that returns a solution.
C5_QueryKeptUntilEnded ==
    [][/\ \A q \in DOMAIN query_to_machine :
            ActiveIn(ComponentState, q) /\ ~ActiveIn(ComponentState', q) => EndsQuery(q)
       /\ \A q \in DOMAIN handles.queries :
            Next_(q) /\ OutcomeKind(QueryNext(ComponentState, q).res) \in SolutionKinds
                => /\ query_to_machine' = query_to_machine
                   /\ \A m \in DOMAIN machines :
                        /\ m \in DOMAIN machines'
                        /\ ActiveId(machines'[m]) = ActiveId(machines[m])]_vars

\* A query that has returned a solution and is still the active query.
C5_Witness ==
    \E q \in DOMAIN handles.queries :
        /\ "Solution" \in handles.queries[q].reported
        /\ ActiveIn(ComponentState, q)

\* The states the operations on machine a lead to: creation of a further
\* machine, consult, run_query, next on a query made by a, the drop of such
\* a query handle, the drop of a.
PostStatesOn(a) ==
    LET st == ComponentState
        made == {q \in DOMAIN handles.queries : handles.queries[q].machine = a}
    IN  {MachineNew(st).st}
        \cup {consult_module_string(st, a, module_name, program).st :
                    module_name \in ModuleNames, program \in Programs}
        \cup {run_query(st, a, query).st : query \in Goals}
        \cup {QueryNext(st, q).st : q \in made}
        \cup {DropQueryStateResource(st, q) : q \in made}
        \cup {DropMachineResource(st, a)}

\* What next() on q reports and, for bindings, the bindings handed out.
Outcome(st, q) ==
    LET r == QueryNext(st, q)
        kind == OutcomeKind(r.res)
    IN  IF kind = "Bindings"
        THEN <<kind, r.st.binding_sets[Unwrap(r.res.sol).id]>>
        ELSE IF r.res.tag = "Ok" THEN <<kind>> ELSE <<kind, r.res.msg>>

\* C6: an operation on machine a leaves the entry of every other machine b,
\* b's active query and the ids mapped to b as they were, and with them
\* what next() on b's query reports.
C6_MachinesIndependent ==
    \A a \in handles.machines, b \in handles.machines :
        a # b => \A st \in PostStatesOn(a) :
                    /\ b \in DOMAIN st.machines
                    /\ st.machines[b] = machines[b]
                    /\ QueriesOf(st, b) = QueriesOf(ComponentState, b)
                    /\ \A q \in DOMAIN handles.queries :
                            handles.queries[q].machine = b
                                => Outcome(st, q) = Outcome(ComponentState, q)

\* Two machines with a query in progress each, one of which has returned a
\* solution while the other has not been asked yet.
C6_Witness ==
    \E qa \in DOMAIN handles.queries, qb \in DOMAIN handles.queries :
        /\ handles.queries[qa].machine # handles.queries[qb].machine
        /\ ActiveIn(ComponentState, qa) /\ ActiveIn(ComponentState, qb)
        /\ handles.queries[qa].reported # {}
        /\ handles.queries[qb].reported = {}

\* The name term_type gives each kind of term.
KindName == [atom |-> "Atom", int |-> "Integer", float |-> "Float", rational |-> "Rational",
             string |-> "Str", list |-> "Lst", compound |-> "Compound", var |-> "Variable"]

\* What the eight as_* accessors return for a term ref, by kind of term.
AsKind(st, self) ==
    [atom |-> as_atom(st, self), int |-> as_integer(st, self), float |-> as_float(st, self),
     rational |-> as_rational(st, self), string |-> as_string(st, self),
     list |-> as_list(st, self).res, compound |-> as_compound(st, self).res,
     var |-> as_variable(st, self)]

\* The integer is within the range of i64.
FitsI64(term) == DigitsLeq(term.digits, IF term.neg THEN I64MinDigits ELSE I64MaxDigits)

\* C7 as stated: term_type names the kind of the stored term, the accessor
\* of that kind returns a value and every other accessor returns none, for
\* every term, an Integer of any magnitude included.
C7_AccessorOfKindReturns ==
    \A self \in handles.term_refs :
        LET term == term_refs[self].term
        IN  /\ term_type(ComponentState, self) = KindName[term.k]
            /\ \A k \in DOMAIN KindName : IsSome(AsKind(ComponentState, self)[k]) <=> k = term.k

\* C7 amended: as above, but as_integer returns the value of an Integer
\* exactly when it is within the range of i64, and none for a larger one.
C7_AccessorOfKindReturnsInRange ==
    \A self \in handles.term_refs :
        LET term == term_refs[self].term
        IN  /\ term_type(ComponentState, self) = KindName[term.k]
            /\ \A k \in DOMAIN KindName :
                    IsSome(AsKind(ComponentState, self)[k])
                        <=> k = term.k /\ (k = "int" => FitsI64(term))
            /\ term.k = "int" /\ FitsI64(term)
                    => as_integer(ComponentState, self)
                            = Some([neg |-> term.neg, digits |-> term.digits])

\* Term refs to 42 and to 9223372036854775808 are held: as_integer returns
\* the first and none for the second, which term_type calls an Integer.
C7_Witness ==
    \E small \in handles.term_refs, big \in handles.term_refs :
        /\ term_refs[small].term = Small
        /\ as_integer(ComponentState, small) = Some([neg |-> FALSE, digits |-> <<"4", "2">>])
        /\ term_refs[big].term = Big
        /\ term_type(ComponentState, big) = "Integer"
        /\ as_integer(ComponentState, big) = None

\* The ids of the resources alive in st or held by the host.
LiveIds(st) ==
    DOMAIN st.machines \cup DOMAIN st.query_to_machine \cup DOMAIN st.binding_sets
        \cup DOMAIN st.term_refs \cup handles.machines \cup DOMAIN handles.queries
        \cup handles.binding_sets \cup handles.term_refs

\* ids are term refs new in st1, one per term of terms and in their
\* order; every term ref of st is in st1 as it was.
FreshRefs(st, st1, ids, terms) ==
    /\ Len(ids) = Len(terms)
    /\ \A i \in 1..Len(ids) :
            /\ ids[i] \notin LiveIds(st)
            /\ ids[i] \in DOMAIN st1.term_refs
            /\ st1.term_refs[ids[i]].term = terms[i]
            /\ \A j \in 1..Len(ids) : ids[j] = ids[i] => j = i
    /\ DOMAIN st1.term_refs = DOMAIN st.term_refs \cup Range(ids)
    /\ \A x \in DOMAIN st.term_refs : st1.term_refs[x] = st.term_refs[x]

AnswerMaps ==
    {item.leaf.bindings :
        item \in UNION {Range(EngineAnswers(EngineConsult(EngineNew, "facts", program).db, goal)) :
                            goal \in BindingGoals, program \in GoodPrograms}}

\* C9: a binding set holds one of the engine's binding maps: variables()
\* returns its keys once each and in the map's order; get_binding(v)
\* returns a new term ref holding v's term when v is a key, and none,
\* with no change of state, when it is not.
C9_BindingsAreTheAnswerMap ==
    \A self \in handles.binding_sets :
        \E answer \in AnswerMaps :
            /\ variables(ComponentState, self)
                    = SelectSeq(KeyOrder, LAMBDA v : v \in DOMAIN answer)
            /\ \A v \in VarNames :
                    LET r == get_binding(ComponentState, self, v)
                    IN  IF v \in Range(variables(ComponentState, self))
                        THEN /\ IsSome(r.res)
                             /\ Unwrap(r.res) \notin LiveIds(ComponentState)
                             /\ r.st.term_refs[Unwrap(r.res)].term = answer[v]
                        ELSE r.res = None /\ r.st = ComponentState

\* A binding set of three variables of which the term of the second has
\* been handed out, and which has no binding for W.
C9_Witness ==
    \E self \in handles.binding_sets, t \in handles.term_refs :
        /\ variables(ComponentState, self) = <<"X", "Y", "Z">>
        /\ term_refs[t].term = binding_sets[self].bindings[2][2]
        /\ get_binding(ComponentState, self, "W").res = None

\* C10: a query on which next() has reported an exception is finished: its
\* machine does not hold it as the active query any longer.
C10_ExceptionEndsQuery ==
    \A q \in DOMAIN handles.queries :
        "Exception" \in handles.queries[q].reported => ~ActiveIn(ComponentState, q)

\* C11: on a machine one of whose queries has reported an exception, a
\* run_query of a goal that parses is accepted; the new query is the
\* machine's active query and the only id mapped to the machine, and its
\* stored answers are those of the goal against the machine's clause table,
\* the same as when the failed query had been discarded first.
C11_ReusableAfterException ==
    \A q \in DOMAIN handles.queries :
        LET self == handles.queries[q].machine
        IN  "Exception" \in handles.queries[q].reported /\ self \in handles.machines
                => \A query \in Goals :
                    EngineGoalParses(query)
                        => LET r == run_query(ComponentState, self, query)
                               clean == run_query(DropQueryStateResource(ComponentState, q),
                                                  self, query)
                               ms == r.st.machines[self]
                           IN  /\ r.res.tag = "Ok"
                               /\ ActiveId(ms) = Some(r.res.id)
                               /\ QueriesOf(r.st, self) = {r.res.id}
                               /\ ms.machine.queries = 1 /\ ~ms.machine.overlap
                               /\ Unwrap(ms.active_query).state.answers
                                    = EngineAnswers(machines[self].machine.db, query)
                               /\ Unwrap(ms.active_query).state
                                    = Unwrap(clean.st.machines[self].active_query).state

\* A machine with a query that has reported an exception and a later query
\* that is its active query and has returned a solution.
C11_Witness ==
    \E failed \in DOMAIN handles.queries, q \in DOMAIN handles.queries :
        /\ handles.queries[failed].machine = handles.queries[q].machine
        /\ "Exception" \in handles.queries[failed].reported
        /\ failed < q
        /\ ActiveIn(ComponentState, q)
        /\ "Solution" \in handles.queries[q].reported

\* error(evaluation_error(zero_divisor), Context).
IsZeroDivisor(term) ==
    /\ term.k = "compound" /\ term.f = "error" /\ Len(term.args) = 2
    /\ term.args[1] = Compound("evaluation_error", <<Atom("zero_divisor")>>)

\* The active queries whose evaluation raises a zero_divisor error next.
RaisingZeroDivisor ==
    {q \in DOMAIN handles.queries :
        /\ ActiveIn(ComponentState, q)
        /\ LET answers == Unwrap(machines[query_to_machine[q]].active_query).state.answers
           IN  /\ answers # <<>>
               /\ ~Head(answers).ok
               /\ IsZeroDivisor(Head(answers).error)}

\* C13: next() on a query whose evaluation raises
\* error(evaluation_error(zero_divisor), _) returns the error message
\* 'Division by zero error', and the next() after it returns no solution.
C13_ZeroDivisorMessage ==
    \A q \in RaisingZeroDivisor :
        LET r == QueryNext(ComponentState, q)
        IN  /\ r.res = Err(<<"Division by zero error">>)
            /\ OutcomeKind(QueryNext(r.st, q).res) \notin {"True", "False", "Bindings"}

\* The query X is 1 / 0 is about to raise its error: next() on it returns
\* the message.
C13_Witness ==
    \E q \in RaisingZeroDivisor :
        /\ handles.queries[q].reported = {}
        /\ QueryNext(ComponentState, q).res = Err(<<"Division by zero error">>)

\* C12: cancellation is cooperative.  Once INTERRUPT is set, the step the
\* machine takes at a goal call or at a backtrack abandons the query with
\* the outcome Halted and adds no solution; only an interrupt halts a query,
\* the flag stays set, and a halted query never runs again.
C12_CooperativeCancellation ==
    [][/\ INTERRUPT /\ At(wam) \in {"call", "backtrack"}
          => wam'.status = "Halted" /\ wam'.answers = wam.answers
       /\ wam.status = "Halted" => wam' = wam
       /\ wam'.status = "Halted" => INTERRUPT'
       /\ INTERRUPT => INTERRUPT']_vars

\* A query halted after a solution while alternatives were left.
C12_Witness ==
    /\ INTERRUPT
    /\ wam.status = "Halted"
    /\ wam.answers # <<>>
    /\ wam.choices # <<>>

IsPrefix(s, t) == Len(s) <= Len(t) /\ s = SubSeq(t, 1, Len(s))

\* The solutions of an uninterrupted run of a query.
Solutions(query, indexing) == RunToEnd(Start(query, indexing)).answers

\* The two queries t(X) and g(X), where t(X) :- g(X), fail. and
\* t(X) :- g(X).: the first clause fails after g(X) succeeded, the second
\* runs g(X) again.
RerunQuery == Query(Call1("t", Local(1)), 1)

FreshQuery == Query(Call1("g", Local(1)), 1)

\* C14: backtracking rolls bindings back exactly.  Every bound cell is on
\* the trail; resetting to the marks of any live choice point leaves bound
\* exactly the cells that were bound when it was created; and the
\* solutions of g(X) run again after the failure of g(X), fail are those
\* of a fresh run of g(X).
C14_ExactRollback ==
    /\ \A a \in BoundCells(wam.heap) : a \in Range(wam.trail)
    /\ \A i \in 1..Len(wam.choices) :
           BoundCells(ResetTo(wam, wam.choices[i]).heap) = wam.choices[i].bound
    /\ wam.query = RerunQuery
           => /\ IsPrefix(wam.answers, Solutions(FreshQuery, wam.indexing))
              /\ wam.status = "Failed" => wam.answers = Solutions(FreshQuery, wam.indexing)

\* g(X) has been run again after the failure and its bindings are the
\* fresh ones, with a choice point left whose reset undoes a binding.
C14_Witness ==
    /\ wam.query = RerunQuery
    /\ wam.status = "Succeeded"
    /\ wam.answers = <<<<Call1("f", Atom("a"))>>>>
    /\ \E i \in 1..Len(wam.choices) :
           BoundCells(ResetTo(wam, wam.choices[i]).heap) # BoundCells(wam.heap)

\* The solutions of a call to a predicate of facts, clause by clause in
\* insertion order: the answer of every clause whose head unifies.
FactAnswers(query) ==
    LET goal == Rename(query.goal, 0)
        clauses == Program[goal.f]
        try(i) == Unify(<<<<goal, Rename(clauses[i].head, query.n)>>>>,
                        FreshCells(0, query.n + clauses[i].n), <<>>)
        matching == SelectSeq([i \in 1..Len(clauses) |-> i], LAMBDA i : try(i).ok)
    IN  [x \in 1..Len(matching) |->
            [j \in 1..query.n |-> Resolve(Ref(j), try(matching[x]).heap)]]

\* C15: solutions come in the insertion order of the matching clauses.
\* For a query that calls a predicate of facts, the solutions so far are
\* the first of the matching clauses' answers in insertion order, and when
\* the query is exhausted they are all of them: a, b, c for p(X).
C15_ProgramOrder ==
    /\ wam.query \in FactQueries \cup IndexQueries
           => /\ IsPrefix(wam.answers, FactAnswers(wam.query))
              /\ wam.status = "Failed" => wam.answers = FactAnswers(wam.query)
    /\ wam.query \in FactQueries /\ wam.status = "Failed"
           => wam.answers = <<<<Atom("a")>>, <<Atom("b")>>, <<Atom("c")>>>>

\* p(X) exhausted after its three solutions.
C15_Witness ==
    /\ wam.query \in FactQueries
    /\ wam.status = "Failed"
    /\ Len(wam.answers) = 3

\* C16: first-argument indexing is observationally neutral.  The solutions
\* a machine has produced are at every moment the first solutions of the
\* run of the same query on a machine with the other indexing setting, and
\* when the query ends it has produced all of them and ends the same way.
C16_IndexingNeutral ==
    LET other == RunToEnd(Start(wam.query, ~wam.indexing))
    IN  /\ IsPrefix(wam.answers, other.answers)
        /\ wam.status \in {"Failed", "Exception"}
               => /\ wam.answers = other.answers
                  /\ wam.status = other.status
                  /\ wam.ball = other.ball

\* A call with indexing on for which the index leaves out clauses and
\* merges two buckets, run to exhaustion.
C16_Witness ==
    LET goal == Rename(wam.query.goal, 0)
        key == IndexKey(goal.args[1])
    IN  /\ wam.indexing
        /\ wam.status = "Failed"
        /\ wam.query \in IndexQueries
        /\ Len(Bucket(Program.k, key)) = 2
        /\ Len(Bucket(Program.k, <<"any">>)) = 1
        /\ Len(wam.answers) = 3

\* The machine is at a cut and no interrupt intervenes.
AtCut ==
    /\ At(wam) = "call"
    /\ IsAtom(Deref(Head(wam.cont).goal, wam.heap), "!")
    /\ ~INTERRUPT

CutExample == Query(Call1("c", Local(1)), 1)

CutAfterChoice == Query(Conj(Call1("q", Local(2)), Call1("c", Local(1))), 2)

\* C17: a cut removes every choice point created since the activation it
\* is in was entered and none created before: after the step the choice
\* points are those born before the activation, in their order; and the
\* query c(X) (c(X) :- member(X, [1,2,3]), !. c(_) :- fail.) has the one
\* solution X = 1.
C17_CutDiscardsSinceEntry ==
    /\ [][AtCut /\ wam' # wam
              => wam'.choices = SelectSeq(wam.choices,
                                          LAMBDA cp : cp.born < wam.stack[wam.e].born)]_vars
    /\ [](wam.query = CutExample
              => /\ Len(wam.answers) <= 1
                 /\ wam.status = "Failed" => wam.answers = <<<<Num("1")>>>>)

\* After the cut in c(X), called after q(Y): the choice point of q(Y) is
\* left, those of c(X) and member are gone.
C17_Witness ==
    /\ wam.query = CutAfterChoice
    /\ wam.status = "Succeeded"
    /\ wam.answers = <<<<Num("1"), Num("1")>>>>
    /\ Len(wam.choices) = 1
    /\ wam.choices[1].goal.f = "q"

\* The marks a choice point records, and the marks of the arenas now.
MarksOf(cp) == <<cp.h, cp.s, cp.tr>>

Tops(m) == <<Len(m.heap), Len(m.stack), Len(m.trail)>>

MarksLeq(a, b) == \A i \in 1..3 : a[i] <= b[i]

\* A step of forward execution: the machine runs, is not interrupted at a
\* boundary, and raises nothing.
Forward ==
    /\ wam.status = "Running"
    /\ ~(INTERRUPT /\ At(wam) = "call")
    /\ Raised(wam) = None
    /\ wam' # wam

\* A backtrack step into a choice point.
Backtracks ==
    /\ wam.status = "Backtracking"
    /\ wam.choices # <<>>
    /\ ~INTERRUPT
    /\ wam' # wam

Raises == IsSome(Raised(wam)) /\ ~INTERRUPT /\ wam' # wam

\* The enclosing barriers whose catcher unifies with the ball once the
\* arenas are back at their marks.
Catching(m, thrown) ==
    {i \in 1..Len(m.choices) :
        /\ m.choices[i].kind = "catch"
        /\ \E j \in 1..Len(m.cont) : m.cont[j].t = "popcatch" /\ m.cont[j].id = m.choices[i].id
        /\ LET r == ResetTo(m, m.choices[i])
           IN  Unify(<<<<thrown, m.choices[i].catcher>>>>, r.heap, r.trail).ok}

CatchExample == Query(Catch(Throw(Atom("my_error")), Atom("my_error"), Atom("true")), 0)

UncaughtExample == Query(Throw(Atom("foo")), 0)

NestedCatch ==
    Query(Catch(Catch(Throw(Atom("e")), Local(2), Call2("=", Local(1), Atom("inner"))),
                Local(3), Call2("=", Local(1), Atom("outer"))), 3)

\* C19: a raised ball is handled by the nearest enclosing barrier that
\* catches it: the choice points from that barrier on are gone, the stack
\* is at the barrier's mark, heap and trail are at its marks but for the
\* bindings of the catcher, the cells bound are those bound at the barrier
\* and those the catcher bound, and the recovery goal is next, followed by
\* the barrier's continuation.  With no such barrier the outcome is
\* Exception with the ball, at the query's initial marks.
\* catch(throw(my_error), my_error, true) gives True, throw(foo) gives
\* Exception(foo).
C19_UnwindToNearestBarrier ==
    /\ [][Raises
              => LET thrown == Unwrap(Raised(wam))
                     catching == Catching(wam, thrown)
                 IN  IF catching = {}
                     THEN /\ wam'.status = "Exception"
                          /\ wam'.ball = Some(thrown)
                          /\ wam'.heap = FreshCells(0, wam.nvars)
                          /\ Len(wam'.stack) = 1 /\ wam'.trail = <<>> /\ wam'.choices = <<>>
                          /\ wam'.answers = wam.answers
                     ELSE LET i == CHOOSE x \in catching : \A y \in catching : y <= x
                              cp == wam.choices[i]
                              caught == {wam'.trail[x] : x \in cp.tr + 1..Len(wam'.trail)}
                          IN  /\ wam'.status = "Running"
                              /\ wam'.choices = SubSeq(wam.choices, 1, i - 1)
                              /\ wam'.stack = SubSeq(wam.stack, 1, cp.s)
                              /\ Len(wam'.heap) = cp.h
                              /\ SubSeq(wam'.trail, 1, cp.tr) = SubSeq(wam.trail, 1, cp.tr)
                              /\ BoundCells(wam'.heap) = cp.bound \cup caught
                              /\ wam'.cont = <<CallItem(cp.recovery)>> \o cp.cont]_vars
    /\ [](/\ wam.query = CatchExample
              => /\ wam.status # "Exception"
                 /\ wam.status \in {"Succeeded", "Failed"} => wam.answers = <<<<>>>>
          /\ wam.query = UncaughtExample
              => /\ wam.status \in {"Running", "Exception", "Halted"}
                 /\ wam.answers = <<>>
                 /\ wam.status = "Exception" => wam.ball = Some(Atom("foo")))

\* The inner of two barriers has caught the ball: its recovery goal has
\* bound X, the outer one is not involved.
C19_Witness ==
    /\ wam.query = NestedCatch
    /\ wam.status = "Succeeded"
    /\ wam.answers[1][1] = Atom("inner")

\* The atoms callers hold: those handed out and those about to be.
Handed ==
    UNION {interners[c].held : c \in Callers}
        \cup {[text |-> interners[c].text, id |-> interners[c].id] :
                 c \in {x \in Callers : interners[x].pc = "return"}}

\* C20: interning is safe under concurrent callers.  Of the atoms ever
\* handed to any caller, two have the same id exactly if they have the same
\* text, each id resolves to its text, and no step changes or removes an
\* entry of the table.
C20_InterningSafe ==
    /\ [](\A a, b \in Handed :
            /\ a.text = b.text <=> a.id = b.id
            /\ a.id \in 1..Len(atom_table)
            /\ resolve(atom_table, a.id) = a.text)
    /\ [][IsPrefix(atom_table, atom_table')]_vars

\* Two callers missed the same text in the table at the same time and
\* both went on to insert it; they are returned the same id, while another
\* text has another id.
C20_Witness ==
    /\ Len(atom_table) = 2
    /\ \E c, d \in Callers :
           /\ c # d
           /\ interners[c].pc = "return" /\ interners[d].pc = "return"
           /\ interners[c].missed /\ interners[d].missed
           /\ interners[c].text = interners[d].text
           /\ interners[c].id = interners[d].id

\* The goal texts that do not parse.
BadGoals == {query \in Goals : ~EngineGoalParses(query)}

\* C21: a run_query that fails leaves the machine as it was: the machine's
\* entry and query_to_machine are unchanged, and next() on the handle of
\* the query that was active returns what it would have returned.
C21_FailedRunQueryKeepsState ==
    \A self \in handles.machines, query \in BadGoals :
        LET r == run_query(ComponentState, self, query)
        IN  r.res.tag = "Err"
                => /\ r.st.machines[self] = machines[self]
                   /\ r.st.query_to_machine = query_to_machine
                   /\ \A q \in DOMAIN handles.queries :
                          ActiveIn(ComponentState, q)
                              => QueryNext(r.st, q).res = QueryNext(ComponentState, q).res

\* C22: the engine of a machine is not destroyed before a stored query
\* state that borrows it: in the drop of a machine handle no query state
\* is destroyed after the engine.
C22_EngineOutlivesQueryState ==
    \A self \in handles.machines :
        LET d == DropMachineDestroys(ComponentState, self)
        IN  \A i, j \in 1..Len(d) : d[i] = "engine" /\ d[j] = "query_state" => j < i

\* Every id the counter can have handed out.
Ids == 1..(MaxId + 1)

\* C23: query_to_machine and the machines' active queries agree.  An id q
\* is mapped to m exactly if m is in machines and q is the id of its active
\* query, and next() on no query handle returns 'Machine not found'.
C23_MappingAgreesWithActive ==
    /\ \A q \in Ids, m \in Ids :
           (q \in DOMAIN query_to_machine /\ query_to_machine[q] = m)
               <=> (m \in DOMAIN machines /\ ActiveId(machines[m]) = Some(q))
    /\ \A q \in DOMAIN handles.queries :
           QueryNext(ComponentState, q).res # Err(<<"Machine not found">>)

\* The handle of a query outlives its machine, which was dropped while the
\* query was active: the id is unmapped and next() finds no query state.
C23_Witness ==
    \E q \in DOMAIN handles.queries :
        /\ handles.queries[q].machine \notin handles.machines
        /\ handles.queries[q].reported = {}
        /\ q \notin DOMAIN query_to_machine
        /\ QueryNext(ComponentState, q).res = Err(<<"QueryState not found">>)
        /\ \E other \in DOMAIN handles.queries : ActiveIn(ComponentState, other)

\* The queries with a live handle that are active on a live machine.
LiveActive ==
    {q \in DOMAIN handles.queries :
        ActiveIn(ComponentState, q) /\ handles.queries[q].machine \in handles.machines}

\* The results of next() on the handle of q after a run_query that
\* replaced q on its machine.
NextAfterReplaced(q) ==
    {[before |-> r.st, next |-> QueryNext(r.st, q)] :
        r \in {x \in {run_query(ComponentState, query_to_machine[q], query) : query \in Goals} :
                    x.res.tag = "Ok"}}

\* C24: next() on the handle of a replaced query returns 'Query is no
\* longer active' and leaves the state, the machine's current query
\* included, as it is.
C24_ReplacedIsNoLongerActive ==
    \A q \in LiveActive : \A x \in NextAfterReplaced(q) :
        /\ x.next.res = Err(<<"Query is no longer active">>)
        /\ x.next.st = x.before

\* C25: the REPL loop of either program ends at the end of standard input:
\* the turn of the loop whose read returns zero bytes leaves the loop and
\* sends no query.
C25_ReplEndsAtEof ==
    repl.pc = "loop" /\ read_line(repl.stdin).res = [ok |-> TRUE, n |-> 0]
        => Turn(repl).pc = "exited" /\ Turn(repl).sent = repl.sent

\* The live query handles whose query is not the active query of its
\* machine: replaced, exhausted, or its machine was dropped.
LiveInactive == {q \in DOMAIN handles.queries : ~ActiveIn(ComponentState, q)}

\* C26: the drop of a query handle whose query is not its machine's active
\* query (replaced, exhausted, or the machine already dropped) changes no
\* machine's active_query and leaves query_to_machine as it is.
C26_InactiveDropChangesNothing ==
    \A q \in LiveInactive :
        LET d == DropQueryStateResource(ComponentState, q)
        IN  /\ d.query_to_machine = query_to_machine
            /\ d.machines = machines

\* The handle of an exhausted query is live while its machine has the
\* active query that followed it.
C26_Witness ==
    /\ \E q \in LiveInactive :
           /\ "Exhausted" \in handles.queries[q].reported
           /\ handles.queries[q].machine \in handles.machines
           /\ IsSome(machines[handles.queries[q].machine].active_query)
    /\ \E q \in DOMAIN handles.queries : ActiveIn(ComponentState, q)


\* C27: the drop of the handle of a machine's active query clears that
\* machine's active_query and removes the query from query_to_machine, and
\* after it consult_module_string on that machine is not refused with
\* 'Cannot consult module while query is active'.
C27_ActiveDropFreesMachine ==
    \A q \in LiveActive :
        LET machine_id == query_to_machine[q]
            d == DropQueryStateResource(ComponentState, q)
        IN  /\ d.machines[machine_id].active_query = None
            /\ q \notin DOMAIN d.query_to_machine
            /\ \A module_name \in ModuleNames, program \in Programs :
                   consult_module_string(d, machine_id, module_name, program).res
                       # ConsultRefusal

\* A consult that is refused while the query is active loads the program
\* once the handle of the query has been dropped.
C27_Witness ==
    \E q \in LiveActive, module_name \in ModuleNames, program \in GoodPrograms :
        LET machine_id == query_to_machine[q]
            d == DropQueryStateResource(ComponentState, q)
        IN  /\ consult_module_string(ComponentState, machine_id, module_name, program).res
                   = ConsultRefusal
            /\ consult_module_string(d, machine_id, module_name, program).res = Ok

\* No handle is live.
AllDropped ==
    /\ handles.machines = {}
    /\ DOMAIN handles.queries = {}
    /\ handles.binding_sets = {}
    /\ handles.term_refs = {}

\* C28: no resource entry outlives its handle.  Every key of machines,
\* query_to_machine, binding_sets and term_refs is the id of a handle of
\* that kind that was created and is not yet dropped, and once every
\* handle is dropped the four maps are empty.
C28_NoEntryOutlivesItsHandle ==
    /\ DOMAIN machines \subseteq handles.machines
    /\ DOMAIN query_to_machine \subseteq DOMAIN handles.queries
    /\ DOMAIN binding_sets \subseteq handles.binding_sets
    /\ DOMAIN term_refs \subseteq handles.term_refs
    /\ AllDropped => /\ machines = EmptyMap
                     /\ query_to_machine = EmptyMap
                     /\ binding_sets = EmptyMap
                     /\ term_refs = EmptyMap

\* Every id within the bound was handed out and every handle has been
\* dropped since.
C28_Witness ==
    /\ NEXT_ID = MaxId + 1
    /\ AllDropped
    /\ machines = EmptyMap /\ query_to_machine = EmptyMap
    /\ binding_sets = EmptyMap /\ term_refs = EmptyMap

\* The terms held by the term refs ids of state st.
TermsOf(st, ids) == [i \in DOMAIN ids |-> st.term_refs[ids[i]].term]

\* What a term ref returns: term_type, to_string and the eight as_*
\* accessors, with the terms of the children as_list and as_compound
\* hand out.
TermRefReads(st, self) ==
    LET l == as_list(st, self)
        c == as_compound(st, self)
    IN  [term_type |-> term_type(st, self),
         to_string |-> to_string(st, self),
         as |-> AsKind(st, self),
         items |-> IF IsSome(l.res) THEN TermsOf(l.st, Unwrap(l.res)) ELSE <<>>,
         args |-> IF IsSome(c.res) THEN TermsOf(c.st, Unwrap(c.res).args) ELSE <<>>]

\* What a binding set returns: variables and, for each name, the term of
\* the term ref get_binding hands out.
BindingSetReads(st, self) ==
    [variables |-> variables(st, self),
     get_binding |-> [var_name \in VarNames |->
                        LET r == get_binding(st, self, var_name)
                        IN  IF IsSome(r.res)
                            THEN Some(r.st.term_refs[Unwrap(r.res)].term)
                            ELSE None]]

\* The drops of one live handle: the id dropped and the state after.
DropsOfLive ==
    {[id |-> self, st |-> DropMachineResource(ComponentState, self)] :
        self \in handles.machines}
    \cup {[id |-> self, st |-> DropQueryStateResource(ComponentState, self)] :
            self \in DOMAIN handles.queries}
    \cup {[id |-> self, st |-> DropBindingSetResource(ComponentState, self)] :
            self \in handles.binding_sets}
    \cup {[id |-> self, st |-> DropTermRefResource(ComponentState, self)] :
            self \in handles.term_refs}

\* C29: term refs and binding sets are independent of the resources they
\* came from.  The drop of a binding set, a term ref, a query handle or a
\* machine removes from binding_sets and term_refs no entry but its own,
\* and every other live term ref and binding set returns after the drop
\* what it returned before: term_type, to_string, the as_* accessors,
\* variables and get_binding.
C29_AnswersOutliveTheirSources ==
    \A d \in DropsOfLive :
        /\ DOMAIN d.st.binding_sets = DOMAIN binding_sets \ {d.id}
        /\ DOMAIN d.st.term_refs = DOMAIN term_refs \ {d.id}
        /\ \A self \in handles.term_refs \ {d.id} :
               TermRefReads(d.st, self) = TermRefReads(ComponentState, self)
        /\ \A self \in handles.binding_sets \ {d.id} :
               BindingSetReads(d.st, self) = BindingSetReads(ComponentState, self)

\* The machine, the query, the binding set and the parent list are all
\* dropped, and an element of the list, obtained by as_list, still reads
\* as the integer it is.
C29_Witness ==
    /\ handles.machines = {} /\ DOMAIN handles.queries = {}
    /\ handles.binding_sets = {}
    /\ \A self \in handles.term_refs : term_refs[self].term.k # "list"
    /\ \E self \in handles.term_refs :
           /\ term_type(ComponentState, self) = "Integer"
           /\ as_integer(ComponentState, self) = ParseI64(IBigToString(Small))

\* C30: next_id hands out unique ids, for any number of calls: the id it
\* returns next is the id of no live machine, query, binding set or term
\* ref, each of which was returned by an earlier call, so an insert under
\* the new id overwrites no live entry.
C30_NextIdIsUnused ==
    next_id(ComponentState).id \notin LiveIds(ComponentState)

\* The calls of proc that load or query: run_query and
\* consult_module_string, with their argument.
RECURSIVE MachineCalls(_)
MachineCalls(calls) ==
    IF calls = <<>> THEN <<>>
    ELSE IF Head(calls).op \in {"run_query", "consult_module_string"}
    THEN <<[op |-> Head(calls).op, arg |-> Head(calls).arg]>> \o MachineCalls(Tail(calls))
    ELSE MachineCalls(Tail(calls))

\* The fixed order of wasi/cli: the essential libraries in list order, the
\* files in the order of the command line, the query.
ExpectedCalls(p) ==
    [i \in 1..Len(essential_libraries) |->
        [op |-> "run_query", arg |-> LibraryQuery(essential_libraries[i])]]
    \o [i \in 1..Len(p.files) |->
        [op |-> "consult_module_string", arg |-> ModuleNameOf(p.program, p.files[i])]]
    \o (IF IsSome(p.query) THEN <<[op |-> "run_query", arg |-> Unwrap(p.query)]>> ELSE <<>>)

\* wasi/cli has made its machine.
CliRuns == proc.pc # "idle" /\ proc.program = "cli" /\ proc.calls # <<>>

\* The query of the user has been sent, or the REPL entered.
UserTurn(p) ==
    \/ p.pc = "repl"
    \/ Len(MachineCalls(p.calls)) > Len(essential_libraries) + Len(p.files)

\* The calls come in the fixed order, and the user's turn after all of
\* the libraries and files.
MainInOrder ==
    CliRuns =>
        /\ IsPrefix(MachineCalls(proc.calls), ExpectedCalls(proc))
        /\ UserTurn(proc) =>
              Len(MachineCalls(proc.calls)) >= Len(essential_libraries) + Len(proc.files)

\* A file of the command line was not read or not consulted.
FileFailed(p) ==
    \E i \in 1..Len(p.out), file \in Range(p.files) :
        p.out[i].lines \in {<<<<"Could not read file ", file>>>>, <<<<"Failed to load ", file>>>>}

FileFailureExits ==
    CliRuns /\ FileFailed(proc)
        => proc.pc = "exited" /\ proc.status = Some(1) /\ ~UserTurn(proc)

\* The essential libraries whose loading has failed: run_query returned an
\* error, or next did.
FailedLibraries(p) ==
    {lib \in Range(essential_libraries) :
        \E i \in 1..Len(p.calls) :
            /\ p.calls[i].op = "run_query" /\ p.calls[i].arg = LibraryQuery(lib)
            /\ \/ p.calls[i].res = "Err"
               \/ i < Len(p.calls) /\ p.calls[i + 1].op = "next" /\ p.calls[i + 1].res = "Err"}

Warned(p, lib) ==
    Printed("stderr", <<<<"Warning: Failed to load library ", lib>>>>) \in Range(p.out)

\* The loading goes on after a library that failed: the program is past
\* it and has not exited for it.
LibraryFailureGoesOn ==
    CliRuns /\ FailedLibraries(proc) # {}
        => \/ proc.pc \in {"libraries", "files", "run", "repl"}
           \/ FileFailed(proc)
           \/ UserTurn(proc)

\* C31: wasi/cli acts in a fixed order: the nine essential libraries in
\* list order, then the files in command line order, then the query or
\* the REPL.  A file that is not read or not consulted ends the process
\* with status 1 before a query of the user is sent; a library that fails
\* to load produces a warning, and the loading goes on.
C31_FixedOrderOfMain ==
    /\ MainInOrder
    /\ FileFailureExits
    /\ LibraryFailureGoesOn
    /\ CliRuns => \A lib \in FailedLibraries(proc) : Warned(proc, lib)

\* The program is about to run the query of the command line.
QueryRuns == proc.pc = "run" /\ IsSome(proc.query)

\* The query of the command line run to its end, for an answer of the
\* machine.
Executed(answer) ==
    IF proc.program = "cli" THEN execute_query(proc, answer)
    ELSE ExecuteQueryImpl(proc, answer)

\* The calls the run of the query has added.
Added(answer) ==
    SubSeq(Executed(answer).calls, Len(proc.calls) + 1, Len(Executed(answer).calls))

\* The positions of the calls of op in calls.
Positions(calls, op) == {i \in 1..Len(calls) : calls[i].op = op}

\* next() is called once for the query, and one result is printed: a
\* solution, 'false.' if next() reports none, the error if it fails.
OneOutcome(answer) ==
    LET r == Executed(answer)
        item == r.out[Len(r.out)]
    IN  /\ Cardinality(Positions(Added(answer), "next")) = 1
        /\ Len(r.out) = Len(proc.out) + 1
        /\ answer.next = "None" => item = Printed("stdout", <<<<"false.">>>>)
        /\ answer.next = "Err"
              => item.to = "stderr" /\ Range(answer.msg) \subseteq Range(item.lines[1])
        /\ answer.next = "Some" => item.lines # <<>>

\* The query handle is dropped after the call of next().
HandleDropped(answer) ==
    \E i \in Positions(Added(answer), "drop") :
        \A j \in Positions(Added(answer), "next") : j < i

\* The answers to a query that run_query accepts.
AcceptedAnswers == {answer \in QueryAnswers : answer.run_query = "Ok"}

\* C32 as stated: in non-interactive mode each program calls next() once
\* for the query and reports one result, the first solution, 'false.' or
\* the error, and after it the query handle is dropped.
C32_OneOutcomeThenDrop ==
    QueryRuns =>
        \A answer \in AcceptedAnswers : OneOutcome(answer) /\ HandleDropped(answer)

\* C32, amended: as stated, but wasi/cli, when next() returns an error,
\* exits with status 1 at once and does not drop the query handle.
C32_OneOutcomeThenDropOrExit ==
    QueryRuns =>
        \A answer \in AcceptedAnswers :
            /\ OneOutcome(answer)
            /\ IF proc.program = "cli" /\ answer.next = "Err"
               THEN /\ Executed(answer).pc = "exited"
                    /\ Executed(answer).status = Some(1)
                    /\ Positions(Added(answer), "drop") = {}
               ELSE HandleDropped(answer)

\* A program has run its query: next() returned bindings, they were read
\* and printed, the query handle was dropped and the program returned.
C32_Witness ==
    /\ proc.pc = "exited" /\ proc.status = Some(0)
    /\ \E i \in Positions(proc.calls, "next") :
           /\ proc.calls[i].res = "Some"
           /\ proc.calls[i + 1].op = "variables"
           /\ proc.calls[i + 1].res # <<>>
           /\ \E j \in Positions(proc.calls, "drop") : j > i /\ j = Len(proc.calls) - 1
           /\ \A k \in Positions(proc.calls, "next") : k <= i

====
